---- MODULE Spec2Model ----
(***************************************************************************)
(* Model of the pendulum-lab repository.                                   *)
(*                                                                         *)
(* Part 1: n-pendulum (src/n-pendulum/src).                                *)
(*                                                                         *)
(* Representation of the f32 quantities of the code:                       *)
(*   - wall-clock times and durations are whole milliseconds ("ticks"),    *)
(*     so 0.005 s = 5 ticks, 0.05 s = 50 ticks, 60 s = 60000 ticks;        *)
(*   - an elapsed time handed to the sub-step controller is an f32 value   *)
(*     [kind, v]: finite (v ticks), NaN, +inf or -inf;                     *)
(*   - a sub-step size dt/steps is the exact fraction [num, den] of ticks; *)
(*   - angles, angular velocities and accelerations are fixed-point        *)
(*     numbers with Scale units per radian, rounded to nearest; a result   *)
(*     beyond +-FMax overflows to +-infinity, and NaN and the infinities   *)
(*     follow the IEEE 754 rules of f32;                                   *)
(*   - lengths are whole centimetres and masses whole grams.               *)
(***************************************************************************)
EXTENDS Integers, Sequences, FiniteSets, TLC

(* ------------------------------------------------------------------ *)
(* Program constants                                                  *)
(* ------------------------------------------------------------------ *)

\* pendulum.rs:3
MAX_LINKS == 7
\* pendulum.rs:4 (seconds)
HISTORY_SECONDS == 60
\* pendulum.rs:5
HISTORY_SAMPLES == 1024
\* resolution of Duration::as_secs_f32 in the model: ticks per second
TicksPerSecond == 1000
\* gui.rs:116, the literal 0.005 (seconds) in ticks
SUBSTEP_TICKS == 5
\* gui.rs:115, the literal 0.05 (seconds) in ticks
FRAME_CLAMP_TICKS == 50
\* pendulum.rs:14, g = 9.81 m/s^2 in cm/s^2 (lengths are centimetres)
G_CM == 981
\* pendulum.rs:17-18, k = 5.0
K_COUPLING == 5
\* gui.rs:23, default length 1.0 m in centimetres
DEFAULT_LENGTH == 100
\* gui.rs:23, default mass 1.0 kg in grams
DEFAULT_MASS == 1000
\* gui.rs:91, the floor 0.01 m of an edited length, in centimetres
MIN_LENGTH == 1
\* gui.rs:97, the floor 0.001 kg of an edited mass, in grams
MIN_MASS == 1

\* fixed-point units per radian (and per rad/s, rad/s^2)
Scale == 10000
\* largest finite magnitude of the fixed-point numbers
FMax == 1000000000
\* f32::INFINITY (its negation is f32::NEG_INFINITY) and f32::NAN
INF_FP == FMax + 1
NAN_FP == FMax + 2

HistoryWindow == HISTORY_SECONDS * TicksPerSecond

Links == 0 .. (MAX_LINKS - 1)
Slots == 0 .. (2 * MAX_LINKS - 1)

(* ------------------------------------------------------------------ *)
(* Arithmetic helpers                                                 *)
(* ------------------------------------------------------------------ *)

Abs(x) == IF x < 0 THEN -x ELSE x
Sgn(x) == IF x < 0 THEN -1 ELSE IF x > 0 THEN 1 ELSE 0
Min2(a, b) == IF a < b THEN a ELSE b
Max2(a, b) == IF a > b THEN a ELSE b

IsNan(x) == x = NAN_FP
IsInf(x) == x = INF_FP \/ x = -INF_FP
IsFinite(x) == ~IsNan(x) /\ ~IsInf(x)
\* -x
Neg(x) == IF IsNan(x) THEN x ELSE -x

\* an exact finite result as an f32: overflow gives an infinity
Sat(x) == IF x > FMax THEN INF_FP ELSE IF x < -FMax THEN -INF_FP ELSE x
\* a + b
FAdd(a, b) ==
    IF IsNan(a) \/ IsNan(b) THEN NAN_FP
    ELSE IF IsInf(a) THEN (IF IsInf(b) /\ b # a THEN NAN_FP ELSE a)
    ELSE IF IsInf(b) THEN b
    ELSE Sat(a + b)
\* a - b
FSub(a, b) == FAdd(a, Neg(b))
\* x * c for an integer factor c > 0
MulSat(x, c) ==
    IF ~IsFinite(x) THEN x
    ELSE IF Abs(x) > FMax \div c THEN Sgn(x) * INF_FP ELSE x * c
\* a / b rounded to nearest (ties away from zero), a finite, b > 0
RDiv(a, b) == Sgn(a) * ((2 * Abs(a) + b) \div (2 * b))
\* |x| * a / b rounded, for |x| * a beyond the integer range: the whole and
\* the fractional part of |x| / b are multiplied separately
MulDivWide(ax, a, b) ==
    IF ax \div b > FMax \div a THEN INF_FP
    ELSE IF ax % b <= FMax \div a
         THEN Sat((ax \div b) * a + RDiv((ax % b) * a, b))
    ELSE MulSat(RDiv(ax, b), a)
\* x * a / b for integers a >= 0, b > 0, rounded
MulDiv(x, a, b) ==
    IF IsNan(x) THEN NAN_FP
    ELSE IF IsInf(x) THEN (IF a = 0 THEN NAN_FP ELSE x)
    ELSE IF a = 0 THEN 0
    ELSE IF Abs(x) <= FMax \div a THEN Sat(RDiv(x * a, b))
    ELSE Sgn(x) * MulDivWide(Abs(x), a, b)

\* the array f with every element computed (arrays hold values, not thunks)
Array(f) == f @@ <<>>

\* ceil(a / b) for a >= 0, b > 0: f32::ceil of the quotient
CeilDiv(a, b) == (a + b - 1) \div b

(* ------------------------------------------------------------------ *)
(* f32::sin in fixed point                                            *)
(* ------------------------------------------------------------------ *)

PI_FP == 31416
HALF_PI_FP == 15708
TWO_PI_FP == 62832

\* Taylor polynomial on [0, pi/2]
SinPoly(c) ==
    LET r2 == RDiv(c * c, Scale)
        t3 == RDiv(c * r2, 6 * Scale)
        t5 == RDiv(t3 * r2, 20 * Scale)
        t7 == RDiv(t5 * r2, 42 * Scale)
    IN  c - t3 + t5 - t7

\* f32::sin; the sine of NaN or of an infinity is NaN
sin(x) ==
    IF ~IsFinite(x) THEN NAN_FP
    ELSE LET a == Abs(x) % TWO_PI_FP
             s == IF a > PI_FP THEN -1 ELSE 1
             b == IF a > PI_FP THEN a - PI_FP ELSE a
             c == IF b > HALF_PI_FP THEN PI_FP - b ELSE b
         IN  Sgn(x) * s * SinPoly(c)

(* ------------------------------------------------------------------ *)
(* pendulum.rs                                                        *)
(* ------------------------------------------------------------------ *)

\* torque / im with im = mass * length * length (grams * cm^2 = 1e-7 kg m^2),
\* for a finite mass > 0 and a finite length > 0
DivInertia(torque, mass, length) ==
    MulDiv(MulDiv(torque, 1000, mass), 10000, length * length)

\* (-g / length) * s for s = thetas[i].sin(): -g/0 is -inf, -g/+-inf is 0
GravityOf(length, s) ==
    IF IsNan(length) \/ IsNan(s) THEN NAN_FP
    ELSE IF length = 0 THEN (IF s = 0 THEN NAN_FP ELSE -Sgn(s) * INF_FP)
    ELSE IF IsInf(length) THEN 0
    ELSE -Sgn(length) * RDiv(G_CM * s, Abs(length))

\* pendulum.rs:16: -g / lengths[i] * thetas[i].sin()
Gravity(length, theta) == GravityOf(length, sin(theta))

\* pendulum.rs:19: masses[i] * lengths[i] * lengths[i]
Inertia(mass, length) ==
    IF IsNan(mass) \/ IsNan(length) THEN NAN_FP
    ELSE IF IsInf(mass) \/ IsInf(length)
         THEN (IF mass = 0 \/ length = 0 THEN NAN_FP ELSE Sgn(mass) * INF_FP)
    ELSE mass * length * length

\* the division without the test of the inertia: x/0 is +-inf, 0/0 is NaN
AccelOf_noGuard(torque, im, mass, length) ==
    IF IsNan(im) \/ IsNan(torque) THEN NAN_FP
    ELSE IF im = 0 THEN (IF torque = 0 THEN NAN_FP ELSE Sgn(torque) * INF_FP)
    ELSE IF IsInf(im) THEN (IF IsInf(torque) THEN NAN_FP ELSE 0)
    ELSE IF IsInf(torque) THEN Sgn(torque) * Sgn(im) * INF_FP
    ELSE Sgn(mass) * DivInertia(torque, Abs(mass), Abs(length))

\* pendulum.rs:20: if im.abs() < 1e-12 { 0.0 } else { torque / im }; a NaN
\* inertia fails the test and divides
AccelOf(torque, im, mass, length) ==
    IF IsNan(im) THEN NAN_FP
    ELSE IF im = 0 THEN 0
    ELSE IF IsNan(torque) THEN NAN_FP
    ELSE IF IsInf(im) THEN (IF IsInf(torque) THEN NAN_FP ELSE 0)
    ELSE IF IsInf(torque) THEN Sgn(torque) * Sgn(im) * INF_FP
    ELSE Sgn(mass) * DivInertia(torque, Abs(mass), Abs(length))

\* the coupling to the previous link with the opposite sign
CoupleBelow_signFlipped(thetas, i, torque) ==
    IF i > 0
    THEN FAdd(torque, MulSat(FSub(thetas[i], thetas[i - 1]), K_COUPLING))
    ELSE torque

\* pendulum.rs:17: if i > 0 { torque += -k * (thetas[i] - thetas[i-1]) }
CoupleBelow(thetas, i, torque) ==
    IF i > 0
    THEN FAdd(torque, Neg(MulSat(FSub(thetas[i], thetas[i - 1]), K_COUPLING)))
    ELSE torque

\* pendulum.rs:18: if i + 1 < n { torque += -k * (thetas[i] - thetas[i+1]) }
CoupleAbove(nn, thetas, i, torque) ==
    IF i + 1 < nn
    THEN FAdd(torque, Neg(MulSat(FSub(thetas[i], thetas[i + 1]), K_COUPLING)))
    ELSE torque

\* pendulum.rs:19-20: im = masses[i] * lengths[i] * lengths[i]; a zero
\* inertia gives the acceleration 0
Accel(torque, mass, length) ==
    AccelOf(torque, Inertia(mass, length), mass, length)

\* pendulum.rs:13-22: the accelerations of links 0..n-1
accelerations_impl(nn, lengths, masses, thetas) ==
    Array([i \in 0 .. (nn - 1) |->
        Accel(CoupleAbove(nn, thetas, i,
                  CoupleBelow(thetas, i, Gravity(lengths[i], thetas[i]))),
              masses[i], lengths[i])])

\* the derivative added to what the output buffer holds (`+=` for `=`)
deriv_impl_accumulate(nn, lengths, masses, y, out) ==
    LET thetas == Array([i \in 0 .. (nn - 1) |-> y[2 * i]])
        acc == accelerations_impl(nn, lengths, masses, thetas)
    IN  Array([j \in DOMAIN out |->
            IF j < 2 * nn
            THEN FAdd(out[j], IF j % 2 = 0 THEN y[j + 1] ELSE acc[j \div 2])
            ELSE out[j]])

\* pendulum.rs:24-32: writes slots 0..2n-1 of out, leaves the others
deriv_impl(nn, lengths, masses, y, out) ==
    LET thetas == Array([i \in 0 .. (nn - 1) |-> y[2 * i]])
        acc == accelerations_impl(nn, lengths, masses, thetas)
    IN  Array([j \in DOMAIN out |->
            IF j < 2 * nn
            THEN IF j % 2 = 0 THEN y[j + 1] ELSE acc[j \div 2]
            ELSE out[j]])

(* ------------------------------------------------------------------ *)
(* solver.rs                                                          *)
(* ------------------------------------------------------------------ *)

\* c * dt * x for dt = [num, den] ticks and c = 1/divisor
DtTimes(dt, x, divisor) ==
    MulDiv(x, dt.num, dt.den * TicksPerSecond * divisor)

\* y_local[i] + c*dt*k[i] for the slots below 2n (solver.rs:15, 19, 23)
Stage(nn, y, dt, k, divisor) ==
    Array([j \in 0 .. (2 * nn - 1) |-> FAdd(y[j], DtTimes(dt, k[j], divisor))])

\* the four stages summed with equal weights
Weighted_unweighted(a, b, c, d, j) ==
    FAdd(FAdd(FAdd(a[j], b[j]), c[j]), d[j])

\* k1 + 2*k2 + 2*k3 + k4 at slot j (solver.rs:28-29)
Weighted(a, b, c, d, j) ==
    FAdd(FAdd(FAdd(a[j], MulSat(b[j], 2)), MulSat(c[j], 2)), d[j])

\* the packing with the velocity in slot 2i and the angle in slot 2i+1
Pack_swapped(nn, theta, omega) ==
    Array([j \in 0 .. (2 * nn - 1) |->
        IF j % 2 = 0 THEN omega[j \div 2] ELSE theta[j \div 2]])

\* solver.rs:7-8: y_local, theta and omega interleaved
Pack(nn, theta, omega) ==
    Array([j \in 0 .. (2 * nn - 1) |->
        IF j % 2 = 0 THEN theta[j \div 2] ELSE omega[j \div 2]])

\* the advance run over all MAX_LINKS links instead of links 0..n-1
Rk4Advance_allLinks(nn, theta, omega, dt, n1, n2, n3, n4) ==
    [theta |-> Array([i \in DOMAIN theta |->
                   FAdd(theta[i], DtTimes(dt, Weighted(n1, n2, n3, n4, 2 * i), 6))]),
     omega |-> Array([i \in DOMAIN omega |->
                   FAdd(omega[i], DtTimes(dt, Weighted(n1, n2, n3, n4, 2 * i + 1), 6))]),
     k1 |-> n1, k2 |-> n2, k3 |-> n3, k4 |-> n4]

\* the advance of the explicit Euler method: dt * k1
Rk4Advance_euler(nn, theta, omega, dt, n1, n2, n3, n4) ==
    [theta |-> Array([i \in DOMAIN theta |->
                   IF i < nn THEN FAdd(theta[i], DtTimes(dt, n1[2 * i], 1))
                   ELSE theta[i]]),
     omega |-> Array([i \in DOMAIN omega |->
                   IF i < nn THEN FAdd(omega[i], DtTimes(dt, n1[2 * i + 1], 1))
                   ELSE omega[i]]),
     k1 |-> n1, k2 |-> n2, k3 |-> n3, k4 |-> n4]

\* solver.rs:27-30: theta and omega advanced by dt/6 * (k1 + 2*k2 + 2*k3 + k4);
\* the result holds the arrays the step writes
Rk4Advance(nn, theta, omega, dt, n1, n2, n3, n4) ==
    [theta |-> Array([i \in DOMAIN theta |->
                   IF i < nn
                   THEN FAdd(theta[i], DtTimes(dt, Weighted(n1, n2, n3, n4, 2 * i), 6))
                   ELSE theta[i]]),
     omega |-> Array([i \in DOMAIN omega |->
                   IF i < nn
                   THEN FAdd(omega[i], DtTimes(dt, Weighted(n1, n2, n3, n4, 2 * i + 1), 6))
                   ELSE omega[i]]),
     k1 |-> n1, k2 |-> n2, k3 |-> n3, k4 |-> n4]

\* solver.rs:23-24: k4 from y_local + dt*k3, then the advance
Rk4FromK3(nn, lengths, masses, theta, omega, dt, y, k4, n1, n2, n3) ==
    Rk4Advance(nn, theta, omega, dt, n1, n2, n3,
               deriv_impl(nn, lengths, masses, Stage(nn, y, dt, n3, 1), k4))

\* solver.rs:19-20: k3 from y_local + 0.5*dt*k2
Rk4FromK2(nn, lengths, masses, theta, omega, dt, y, k3, k4, n1, n2) ==
    Rk4FromK3(nn, lengths, masses, theta, omega, dt, y, k4, n1, n2,
              deriv_impl(nn, lengths, masses, Stage(nn, y, dt, n2, 2), k3))

\* solver.rs:15-16: k2 from y_local + 0.5*dt*k1
Rk4FromK1(nn, lengths, masses, theta, omega, dt, y, k2, k3, k4, n1) ==
    Rk4FromK2(nn, lengths, masses, theta, omega, dt, y, k3, k4, n1,
              deriv_impl(nn, lengths, masses, Stage(nn, y, dt, n1, 2), k2))

\* solver.rs:11: k1 from y_local
Rk4FromY(nn, lengths, masses, theta, omega, dt, y, k1, k2, k3, k4) ==
    Rk4FromK1(nn, lengths, masses, theta, omega, dt, y, k2, k3, k4,
              deriv_impl(nn, lengths, masses, y, k1))

\* solver.rs:5-31: one RK4 step
step_rk4(nn, lengths, masses, theta, omega, dt, k1, k2, k3, k4) ==
    Rk4FromY(nn, lengths, masses, theta, omega, dt, Pack(nn, theta, omega),
             k1, k2, k3, k4)

(* ------------------------------------------------------------------ *)
(* f32 values of an elapsed time                                      *)
(* ------------------------------------------------------------------ *)

Fin(v) == [kind |-> "fin", v |-> v]
NaN == [kind |-> "nan", v |-> 0]
PosInf == [kind |-> "pinf", v |-> 0]
NegInf == [kind |-> "ninf", v |-> 0]

\* a < b for two values that are not NaN
F32Lt(a, b) ==
    \/ a.kind = "ninf" /\ b.kind # "ninf"
    \/ a.kind = "fin" /\ b.kind = "pinf"
    \/ a.kind = "fin" /\ b.kind = "fin" /\ a.v < b.v

\* f32::min: if one argument is NaN the other is returned
F32Min(a, b) ==
    IF a.kind = "nan" THEN b
    ELSE IF b.kind = "nan" THEN a
    ELSE IF F32Lt(b, a) THEN b ELSE a

\* f32::max: if one argument is NaN the other is returned
F32Max(a, b) ==
    IF a.kind = "nan" THEN b
    ELSE IF b.kind = "nan" THEN a
    ELSE IF F32Lt(a, b) THEN b ELSE a

\* the clamp with an upper limit of 0.1 s for 0.05 s
ClampDt_wideUpper(e) == F32Max(F32Min(e, Fin(2 * FRAME_CLAMP_TICKS)), Fin(0))

\* gui.rs:115: dt.min(0.05).max(0.0)
ClampDt(e) == F32Max(F32Min(e, Fin(FRAME_CLAMP_TICKS)), Fin(0))

\* the step count with the quotient rounded down instead of up
StepCount_floor(d) == Max2(d \div SUBSTEP_TICKS, 1)

\* gui.rs:116: ((dt/0.005).ceil() as usize).max(1), dt finite and positive
StepCount(d) == Max2(CeilDiv(d, SUBSTEP_TICKS), 1)

\* the nominal 0.005 s taken as the sub-step size
SubStep_nominal(d, steps) == [num |-> SUBSTEP_TICKS, den |-> 1]

\* gui.rs:116: sub = dt / steps as f32
SubStep(d, steps) == [num |-> d, den |-> steps]

(* ------------------------------------------------------------------ *)
(* gui.rs: NPendulumApp                                               *)
(* ------------------------------------------------------------------ *)

VARIABLES
    n,            \* link count
    params,       \* per link: length (cm), mass (g)
    theta,        \* per link: angle
    omega,        \* per link: angular velocity
    init_theta,   \* per link: initial angle
    histories,    \* per link: sequence of <<t, theta>>
    last_update,  \* None or Some(instant of the previous frame)
    start_time,   \* instant the sample timestamps count from
    k1, k2, k3, k4,  \* scratch buffers of the stepper
    now,          \* the monotonic clock (Instant::now()), in ticks
    panicked,     \* a panic (index out of bounds) has ended the program
    calls,        \* the calls the last handler made to the stepper and to push_histories
    elapsedIn,    \* the elapsed time the last handler computed or was given
    uiReset,      \* whether Reset was clicked in the last frame
    nFrames,      \* handler invocations so far
    nLinkChanges, \* slider changes so far
    nResets,      \* Reset clicks so far
    nHitches,     \* long frame hitches so far
    spacing,      \* clock ticks between two direct calls of a host
    simulated,    \* ticks of simulated time integrated so far
    pc,           \* "idle", or "loop" inside the sub-step loop of a frame
    loop_left,    \* iterations the sub-step loop has still to run
    loop_sub,     \* the sub-step size of the running loop
    nStable,      \* the link count has not changed since the last reset (or construction)
    wave,         \* the pendulum-wave app (PendulumWaveApp and its PendulumSimulation)
    single        \* the single-pendulum app (PendulumApp)

vars == <<n, params, theta, omega, init_theta, histories, last_update, start_time,
          k1, k2, k3, k4, now, panicked, calls, elapsedIn, uiReset,
          nFrames, nLinkChanges, nResets, nHitches, spacing,
          simulated, pc, loop_left, loop_sub, nStable, wave, single>>

\* the state of the n-pendulum app
npendulum == <<n, params, theta, omega, init_theta, histories, last_update, start_time,
               k1, k2, k3, k4, now, panicked, calls, elapsedIn, uiReset,
               nFrames, nLinkChanges, nResets, nHitches, spacing,
               simulated, pc, loop_left, loop_sub, nStable>>

None == <<>>
Some(t) == <<t>>

\* a slider that does not hold the value in its range
Slider_unclamped(v) == v

\* gui.rs:79: Slider::new(&mut n, 1..=MAX_LINKS) keeps the value the user
\* drags to inside its range
Slider(v) == Max2(1, Min2(v, MAX_LINKS))

\* gui.rs:27-28, the initial angles 0.7, 0.4, -0.3, 0, 0, 0, 0
DefaultTheta ==
    [i \in Links |-> IF i = 0 THEN 7000 ELSE IF i = 1 THEN 4000
                     ELSE IF i = 2 THEN -3000 ELSE 0]

\* gui.rs:25
DEFAULT_N == 3

\* a reset that restores the angles but keeps the angular velocities
reset_state_keepOmega(nn, th, om, hist, initTh) ==
    [theta |-> Array([i \in Links |-> IF i < nn THEN initTh[i] ELSE th[i]]),
     omega |-> om,
     histories |-> Array([i \in Links |-> IF i < nn THEN <<>> ELSE hist[i]])]

\* gui.rs:40-43: reset_state, for the link count nn
reset_state(nn, th, om, hist, initTh) ==
    [theta |-> Array([i \in Links |-> IF i < nn THEN initTh[i] ELSE th[i]]),
     omega |-> Array([i \in Links |-> IF i < nn THEN 0 ELSE om[i]]),
     histories |-> Array([i \in Links |-> IF i < nn THEN <<>> ELSE hist[i]])]

\* the eviction loop with the sample cap compared by >= instead of >
RECURSIVE Evict_offByOne(_, _)
Evict_offByOne(h, t) ==
    IF h = <<>> THEN h
    ELSE IF t - Head(h)[1] > HistoryWindow \/ Len(h) >= HISTORY_SAMPLES
         THEN Evict_offByOne(Tail(h), t)
         ELSE h

\* gui.rs:57: the eviction loop after a push at time t
RECURSIVE Evict(_, _)
Evict(h, t) ==
    IF h = <<>> THEN h
    ELSE IF t - Head(h)[1] > HistoryWindow \/ Len(h) > HISTORY_SAMPLES
         THEN Evict(Tail(h), t)
         ELSE h

\* the sample pushed to the first link only
push_histories_firstOnly(nn, hist, th, t) ==
    Array([i \in Links |-> IF i < Min2(nn, 1) THEN Evict(Append(hist[i], <<t, th[i]>>), t)
                           ELSE hist[i]])

\* gui.rs:53-59: push_histories at timestamp t = start_time.elapsed()
push_histories(nn, hist, th, t) ==
    Array([i \in Links |-> IF i < nn THEN Evict(Append(hist[i], <<t, th[i]>>), t)
                           ELSE hist[i]])

\* an element access a[idx] or a slice a[..idx] of an array of `len` elements
Elem(site, idx, len) == [site |-> site, idx |-> idx, len |-> len, slice |-> FALSE]
Slice(site, idx, len) == [site |-> site, idx |-> idx, len |-> len, slice |-> TRUE]

\* the neighbours of link i read without the test of the last link
NeighbourIndices_noEndTest(nn, i) ==
    (IF i > 0 THEN {i - 1} ELSE {}) \cup {i + 1}

\* pendulum.rs:17-18: the neighbours of link i whose angles are read
NeighbourIndices(nn, i) ==
    (IF i > 0 THEN {i - 1} ELSE {}) \cup (IF i + 1 < nn THEN {i + 1} ELSE {})

\* pendulum.rs:13-22: accelerations_impl on slices of nn elements
AccelAccesses(nn) ==
    UNION {{Elem("lengths", i, nn), Elem("masses", i, nn),
            Elem("thetas", i, nn), Elem("out", i, nn)}
           \cup {Elem("thetas", j, nn) : j \in NeighbourIndices(nn, i)}
           : i \in 0 .. (nn - 1)}

\* pendulum.rs:24-32: deriv_impl with y = &buf[..2n], out one of k1..k4
\* (2 * MAX_LINKS elements, gui.rs:33) and its arrays of MAX_LINKS elements
DerivAccesses(nn) ==
    UNION {{Elem("out", 2 * i, 2 * MAX_LINKS), Elem("out", 2 * i + 1, 2 * MAX_LINKS),
            Elem("y", 2 * i, 2 * nn), Elem("y", 2 * i + 1, 2 * nn),
            Elem("thetas", i, MAX_LINKS), Elem("omegas", i, MAX_LINKS),
            Elem("acc", i, MAX_LINKS)}
           : i \in 0 .. (nn - 1)}
    \cup {Slice("thetas", nn, MAX_LINKS), Slice("omegas", nn, MAX_LINKS),
          Slice("acc", nn, MAX_LINKS)}
    \cup AccelAccesses(nn)

\* solver.rs:5-31: step_rk4 with theta and omega slices of nn elements
SolverAccesses(nn) ==
    UNION {{Elem("y_local", 2 * i, 2 * MAX_LINKS), Elem("y_local", 2 * i + 1, 2 * MAX_LINKS),
            Elem("theta", i, nn), Elem("omega", i, nn),
            Elem("k", 2 * i, 2 * MAX_LINKS), Elem("k", 2 * i + 1, 2 * MAX_LINKS)}
           : i \in 0 .. (nn - 1)}
    \cup UNION {{Elem("tmp", j, 2 * MAX_LINKS), Elem("y_local", j, 2 * MAX_LINKS),
                 Elem("k", j, 2 * MAX_LINKS)}
                : j \in 0 .. (2 * nn - 1)}
    \cup {Slice("y_local", 2 * nn, 2 * MAX_LINKS), Slice("tmp", 2 * nn, 2 * MAX_LINKS)}
    \cup DerivAccesses(nn)

\* gui.rs:45-51: NPendulumApp::step_rk4, then the stepper; the slices of
\* gui.rs:50 must exist before the stepper is entered
StepAccesses(nn) ==
    UNION {{Elem("lengths", i, MAX_LINKS), Elem("masses", i, MAX_LINKS),
            Elem("params", i, MAX_LINKS)}
           : i \in 0 .. (nn - 1)}
    \cup {Slice("lengths", nn, MAX_LINKS), Slice("masses", nn, MAX_LINKS),
          Slice("theta", nn, MAX_LINKS), Slice("omega", nn, MAX_LINKS)}
    \cup (IF nn <= MAX_LINKS THEN SolverAccesses(nn) ELSE {})

\* an index at or beyond the length (a slice may end at the length) panics
OutOfBounds(a) ==
    IF a.slice THEN a.idx > a.len ELSE a.idx < 0 \/ a.idx >= a.len

\* gui.rs:45-51: params[i] is indexed for every i < n, and so are the arrays
\* and slices of the stepper; an index outside its array panics
StepPanics(nn, prm) ==
    \/ \E i \in 0 .. (nn - 1) : i \notin DOMAIN prm
    \/ \E a \in StepAccesses(nn) : OutOfBounds(a)

\* gui.rs:45-51: NPendulumApp::step_rk4
app_step_rk4(nn, prm, th, om, dt, a1, a2, a3, a4) ==
    step_rk4(nn, Array([i \in 0 .. (nn - 1) |-> prm[i].length]),
                 Array([i \in 0 .. (nn - 1) |-> prm[i].mass]),
             th, om, dt, a1, a2, a3, a4)

StepCall(dt, t) == [op |-> "step", dt |-> dt, t |-> t]
PushCall(dt, t) == [op |-> "push", dt |-> dt, t |-> t]

\* gui.rs:116: self.step_rk4(sub), r being the arrays the step wrote
AfterStep(st, r, sub, t) ==
    [st EXCEPT !.theta = r.theta, !.omega = r.omega,
               !.k1 = r.k1, !.k2 = r.k2, !.k3 = r.k3, !.k4 = r.k4,
               !.calls = Append(@, StepCall(sub, t))]

\* gui.rs:116: self.push_histories()
AfterPush(st, sub, t) ==
    [st EXCEPT !.histories = push_histories(st.n, st.histories, st.theta, t),
               !.calls = Append(@, PushCall(sub, t))]

\* gui.rs:116: one iteration of the loop; the step panics or is followed
\* by push_histories
SubstepBody(sub, t, st) ==
    IF StepPanics(st.n, st.params)
    THEN [st EXCEPT !.panicked = TRUE, !.calls = Append(@, StepCall(sub, t))]
    ELSE AfterPush(AfterStep(st, app_step_rk4(st.n, st.params, st.theta, st.omega, sub,
                                              st.k1, st.k2, st.k3, st.k4), sub, t),
                   sub, t)

\* the loop with push_histories moved behind it: one sample per frame
RECURSIVE SubstepLoop_pushAfter(_, _, _, _)
SubstepLoop_pushAfter(left, sub, t, st) ==
    IF left = 0 THEN AfterPush(st, sub, t)
    ELSE IF StepPanics(st.n, st.params)
    THEN [st EXCEPT !.panicked = TRUE, !.calls = Append(@, StepCall(sub, t))]
    ELSE SubstepLoop_pushAfter(left - 1, sub, t,
             AfterStep(st, app_step_rk4(st.n, st.params, st.theta, st.omega, sub,
                                        st.k1, st.k2, st.k3, st.k4), sub, t))

\* gui.rs:116: `for _ in 0..steps`, `left` iterations to go; a panic ends it
RECURSIVE SubstepLoop(_, _, _, _)
SubstepLoop(left, sub, t, st) ==
    IF left = 0 \/ st.panicked THEN st
    ELSE SubstepLoop(left - 1, sub, t, SubstepBody(sub, t, st))

\* the controller with `dt >= 0.0` for `dt > 0.0`
Integrate_orEqual(e, t, st) ==
    LET dt == ClampDt(e)
        steps == StepCount(dt.v)
    IN  SubstepLoop(steps, SubStep(dt.v, steps), t, st)

\* gui.rs:115-116: clamp the elapsed time e and run the sub-steps
Integrate(e, t, st) ==
    LET dt == ClampDt(e)
    IN  IF F32Lt(Fin(0), dt)
        THEN LET steps == StepCount(dt.v)
             IN  SubstepLoop(steps, SubStep(dt.v, steps), t, st)
        ELSE st

\* the simulated time, in ticks, of the completed RK4 steps of the call log cs
RECURSIVE Integrated(_)
Integrated(cs) ==
    IF cs = <<>> THEN 0
    ELSE IF Head(cs).op = "step"
         THEN Head(cs).dt.num + Integrated(Tail(cs))
         ELSE Integrated(Tail(cs))

\* ticks integrated by a handler that ended in state st (all its steps have
\* the same size num/den)
IntegratedBy(st) ==
    IF st.panicked \/ st.calls = <<>> THEN 0
    ELSE Integrated(st.calls) \div Head(st.calls).dt.den

(* ------------------------------------------------------------------ *)
(* Bounds of the model                                                *)
(* ------------------------------------------------------------------ *)

MaxFrames == 4
MaxLinkChanges == 2
MaxResets == 1
MaxHitches == 1
MaxAdvance == 1
MaxPushes == 2000
MaxKernelCalls == 1
MaxRk4Steps == 1000
MaxSpanCalls == 50
MaxLoopFrames == 1
MaxLoopSteps == 12
MaxEditFrames == 2
MaxWaveFrames == 4
MaxSingleFrames == 3
MaxHistoryFrames == 5
\* samples the history of the long-running app is short of its capacity
HistoryHeadroom == 6

\* clock ticks that pass between two frames: none, a short frame, a long hitch
Hitch == 70 * TicksPerSecond
Gaps == {0, 3, Hitch}

\* positions the user drags the link-count slider to, both ends overshot
SliderDrags == {0, DEFAULT_N, MAX_LINKS + 2}

\* elapsed times handed to the sub-step controller
ElapsedInputs ==
    {Fin(v) : v \in -2 .. (FRAME_CLAMP_TICKS + 2)} \cup
    {Fin(10 * TicksPerSecond), Fin(-70000), NaN, PosInf, NegInf}

\* clock ticks between two direct calls of push_histories
Spacings == {0, 1, 70}

\* elapsed time per call of a host that feeds a span of 1 s (in one call or
\* in ten) or a span of 0.05 s (in 1, 2, 5, 10, 25 or 50 calls)
SpanSpacings == {TicksPerSecond, TicksPerSecond \div 10} \cup {50, 25, 10, 5, 2, 1}

\* the span fed in calls of s ticks
SpanOf(s) == IF s > FRAME_CLAMP_TICKS THEN TicksPerSecond ELSE FRAME_CLAMP_TICKS

\* link counts of the app of that host
SpanLinkCounts == {1, DEFAULT_N, MAX_LINKS}

\* link counts of the direct calls of the derivative and of the stepper:
\* a single link, two end links, end links with a link between them
KernelLinkCounts == 1 .. 3

\* <<length, mass>> of the link a host picks (cm, grams): regular, zero,
\* negative and not finite
KernelParams ==
    {<<DEFAULT_LENGTH, DEFAULT_MASS>>, <<50, 2000>>,
     <<0, DEFAULT_MASS>>, <<DEFAULT_LENGTH, 0>>, <<0, 0>>,
     <<-DEFAULT_LENGTH, DEFAULT_MASS>>, <<DEFAULT_LENGTH, -DEFAULT_MASS>>,
     <<INF_FP, DEFAULT_MASS>>, <<DEFAULT_LENGTH, INF_FP>>,
     <<NAN_FP, DEFAULT_MASS>>, <<DEFAULT_LENGTH, NAN_FP>>}

\* the angle of that link
KernelAngles == {0, 7000, -3000, NAN_FP, INF_FP}

\* sub-step sizes of a direct call of the stepper: 5 ms and 12/3 ms
KernelSteps == {SubStep(SUBSTEP_TICKS, 1), SubStep(12, 3)}

\* gui.rs:103: deg.to_radians(), deg in whole degrees
ToRadians(deg) == IF IsFinite(deg) THEN RDiv(deg * PI_FP, 180) ELSE deg

(* ------------------------------------------------------------------ *)
(* pendulum_wave: simulation.rs and app.rs                            *)
(* ------------------------------------------------------------------ *)

\* simulation.rs:18
NUM_PENDULUMS == 9
\* simulation.rs:107, gravity = 9.8 m/s^2 in cm/s^2
WAVE_GRAVITY_CM == 980
\* simulation.rs:44, FRAC_PI_2, and simulation.rs:130, FRAC_PI_4
FRAC_PI_2_FP == 15708
FRAC_PI_4_FP == 7854
\* simulation.rs:110, the limit 0.5 rad of the small-angle formula
SMALL_ANGLE_FP == 5000

Pendulums == 0 .. (NUM_PENDULUMS - 1)

\* simulation.rs:16-66: PendulumSimulation::default; the length of pendulum
\* i is 1.0 + 0.1 * i metres
SimulationDefault ==
    [time |-> 0,
     length |-> [i \in Pendulums |-> 100 + 10 * i],
     angle |-> [i \in Pendulums |-> FRAC_PI_2_FP],
     angular_velocity |-> [i \in Pendulums |-> 0]]

\* app.rs:4-9: PendulumWaveApp::default (derived), with the clock of the
\* GUI context and what the last frame did
WaveDefault ==
    [simulation |-> SimulationDefault,
     paused |-> FALSE,
     last_update |-> None,
     clock |-> 0,
     unpaused |-> 0,
     stamped |-> FALSE,
     uiReset |-> FALSE,
     integrated |-> FALSE,
     frames |-> 0]

\* simulation.rs:110-115: angle - angle^3/6 below 0.5 rad, else angle.sin()
SinAngle(a) ==
    IF IsFinite(a) /\ Abs(a) < SMALL_ANGLE_FP
    THEN a - RDiv(RDiv(a * a, Scale) * a, 6 * Scale)
    ELSE sin(a)

\* simulation.rs:117: -gravity / length * sin_angle, length finite and > 0
WaveAcceleration(length, s) ==
    IF IsNan(s) THEN NAN_FP ELSE -RDiv(WAVE_GRAVITY_CM * s, length)

\* simulation.rs:119: angular_velocity += acceleration * delta_time
WaveVelocity(w, acc, delta) ==
    FAdd(w, Sgn(delta) * MulDiv(acc, Abs(delta), TicksPerSecond))

\* simulation.rs:101-125: PendulumSimulation::update(delta_time); the
\* angular velocity is multiplied by 0.9999 (simulation.rs:123)
simulation_update(sim, delta) ==
    [sim EXCEPT
        !.time = @ + delta,
        !.angle = Array([i \in Pendulums |->
            FAdd(sim.angle[i],
                 Sgn(delta) * MulDiv(WaveVelocity(sim.angular_velocity[i],
                                         WaveAcceleration(sim.length[i], SinAngle(sim.angle[i])),
                                         delta),
                                     Abs(delta), TicksPerSecond))]),
        !.angular_velocity = Array([i \in Pendulums |->
            MulDiv(WaveVelocity(sim.angular_velocity[i],
                                WaveAcceleration(sim.length[i], SinAngle(sim.angle[i])),
                                delta),
                   9999, 10000)])]

\* simulation.rs:127-133: PendulumSimulation::reset
simulation_reset(sim) ==
    [sim EXCEPT !.time = 0,
                !.angle = [i \in Pendulums |-> FRAC_PI_4_FP],
                !.angular_velocity = [i \in Pendulums |-> 0]]

\* app.rs:12-22: PendulumWaveApp::update_simulation(current_time)
update_simulation(w, current_time) ==
    IF w.paused THEN [w EXCEPT !.integrated = FALSE]
    ELSE [w EXCEPT
            !.simulation = IF w.last_update # None
                           THEN simulation_update(@, current_time - w.last_update[1])
                           ELSE @,
            !.integrated = w.last_update # None,
            !.last_update = Some(current_time)]

\* app.rs:35-41: the Pause/Resume button and then the Reset button
WaveButtons(w, pauseClicked, resetClicked) ==
    [w EXCEPT !.paused = IF pauseClicked THEN ~@ ELSE @,
              !.simulation = IF resetClicked THEN simulation_reset(@) ELSE @,
              !.last_update = IF resetClicked THEN None ELSE @]

\* the time the app has spent not paused, in whole frame intervals, since
\* the first unpaused frame after the last reset (or construction): the
\* interval before a frame counts if the app was not paused during it
Unpaused(w, gap, resetClicked) ==
    IF resetClicked THEN 0
    ELSE IF ~w.paused /\ w.stamped THEN w.unpaused + gap ELSE w.unpaused

(* ------------------------------------------------------------------ *)
(* single-pendulum: physics.rs and app.rs                             *)
(*                                                                    *)
(* Lengths are whole centimetres, masses whole milligrams, the drag   *)
(* is in thousandths, gravity in cm/s^2 and the simulation speed in   *)
(* tenths. The time of the sub-step loop is counted in sub-ticks of   *)
(* 1/600 ms, so that 1/60 s and a frame time of whole milliseconds    *)
(* times a speed in tenths are whole numbers.                         *)
(* ------------------------------------------------------------------ *)

SubTicksPerMs == 600

\* app.rs:108
HISTORY_CAPACITY == 4096
\* app.rs:110, sample_dt = 1/60 s in sub-ticks
SAMPLE_DT == 10000
\* app.rs:574, max_sub = 0.005 s in sub-ticks
MAX_SUB == 3000
\* app.rs:187, the frame time 1/60 s taken for a measured time <= 0
FALLBACK_DT == 10000
\* app.rs:190, the limit 0.05 s of a frame time in sub-ticks
SINGLE_CLAMP == 30000
\* app.rs:159-162: the ranges of clamp_parameters
LENGTH_MIN == 10
LENGTH_MAX == 1000
MASS_MIN == 100000
MASS_MAX == 10000000
DRAG_MAX == 2000
GRAVITY_MIN == 10
GRAVITY_MAX == 2000
\* app.rs:567-568: the floors 0.01 m and 1e-6 kg of the physics block
LENGTH_FLOOR == 1
MASS_FLOOR == 1
\* app.rs:256: the range 0.1..=5.0 of the speed slider
SPEED_MIN == 1
SPEED_MAX == 50
\* app.rs:250: the range of the initial angle in degrees
ANGLE_LIMIT_DEG == 179

\* app.rs:68-93: the presets Simple, Damped and Long
Presets ==
    <<[length |-> 100, mass |-> 1000000, drag |-> 0, gravity |-> 981, initial_angle |-> 45],
      [length |-> 100, mass |-> 1000000, drag |-> 450, gravity |-> 981, initial_angle |-> 30],
      [length |-> 200, mass |-> 600000, drag |-> 80, gravity |-> 981, initial_angle |-> 60]>>

\* app.rs:95-123: PendulumApp::default, with the clock and a record of what
\* the last frame did: the rk4_step calls of its loop, the value of
\* `remaining` at the loop's exit, the samples its loop pushed, the frame time
\* it measured, and whether it reset or applied a preset
SingleDefault ==
    [length |-> 100, mass |-> 1000000, drag |-> 0, gravity |-> 981,
     running |-> FALSE,
     start_instant |-> 0,
     last_update |-> 0,
     simulation_speed |-> 10,
     theta |-> 3500, omega |-> 0, initial_theta |-> 3500,
     history |-> <<>>,
     sample_accum |-> 0,
     auto_reset_history |-> TRUE,
     current_preset |-> 0,
     preset_to_apply |-> None,
     clock |-> 0,
     calls |-> <<>>,
     remaining |-> 0,
     pushes |-> 0,
     frameTime |-> 0,
     uiReset |-> FALSE,
     presetApplied |-> FALSE,
     frames |-> 0]

\* f32::clamp: a NaN stays a NaN
Clamp(x, lo, hi) == IF IsNan(x) THEN x ELSE Max2(lo, Min2(x, hi))
\* f32::max: the other operand for a NaN
F32MaxOf(x, lo) == IF IsNan(x) THEN lo ELSE Max2(x, lo)

\* physics.rs:6: -(g / l) * th.sin() for the sine s
SingleGravityOf(s, l, g) == IF IsNan(s) THEN NAN_FP ELSE -RDiv(g * s, l)
\* physics.rs:4-8: dw of the closure f, -(g / l) * th.sin() - (b / m) * w
SingleAccel(th, w, l, m, b, g) ==
    FSub(SingleGravityOf(sin(th), l, g), MulDiv(w, b * 1000, m))

\* x + (num/den) * dt * k, dt in sub-ticks
SinglePlus(x, num, den, dt, k) ==
    FAdd(x, MulDiv(k, num * dt, den * SubTicksPerMs * TicksPerSecond))

\* physics.rs:13-14: k1 + 2*k2 + 2*k3 + k4
SingleWeighted(a, b, c, d) == FAdd(FAdd(FAdd(a, MulSat(b, 2)), MulSat(c, 2)), d)

\* physics.rs:13-15
SingleRk4Advance(th0, w0, dt, k1t, k1w, k2t, k2w, k3t, k3w, k4t, k4w) ==
    [theta |-> SinglePlus(th0, 1, 6, dt, SingleWeighted(k1t, k2t, k3t, k4t)),
     omega |-> SinglePlus(w0, 1, 6, dt, SingleWeighted(k1w, k2w, k3w, k4w))]

\* physics.rs:12
SingleRk4FromK3(th0, w0, dt, l, m, b, g, k1t, k1w, k2t, k2w, k3t, k3w) ==
    SingleRk4Advance(th0, w0, dt, k1t, k1w, k2t, k2w, k3t, k3w,
        SinglePlus(w0, 1, 1, dt, k3w),
        SingleAccel(SinglePlus(th0, 1, 1, dt, k3t), SinglePlus(w0, 1, 1, dt, k3w),
                    l, m, b, g))

\* physics.rs:11
SingleRk4FromK2(th0, w0, dt, l, m, b, g, k1t, k1w, k2t, k2w) ==
    SingleRk4FromK3(th0, w0, dt, l, m, b, g, k1t, k1w, k2t, k2w,
        SinglePlus(w0, 1, 2, dt, k2w),
        SingleAccel(SinglePlus(th0, 1, 2, dt, k2t), SinglePlus(w0, 1, 2, dt, k2w),
                    l, m, b, g))

\* physics.rs:10
SingleRk4FromK1(th0, w0, dt, l, m, b, g, k1t, k1w) ==
    SingleRk4FromK2(th0, w0, dt, l, m, b, g, k1t, k1w,
        SinglePlus(w0, 1, 2, dt, k1w),
        SingleAccel(SinglePlus(th0, 1, 2, dt, k1t), SinglePlus(w0, 1, 2, dt, k1w),
                    l, m, b, g))

\* physics.rs:3-16: rk4_step
rk4_step(th0, w0, dt, l, m, b, g) ==
    SingleRk4FromK1(th0, w0, dt, l, m, b, g,
                    w0, SingleAccel(th0, w0, l, m, b, g))

\* app.rs:128-134: push_history(t); to_degrees gives 1e-4 degrees
push_history(s, t) ==
    [s EXCEPT !.history =
        Append(IF s.auto_reset_history /\ Len(s.history) = HISTORY_CAPACITY
               THEN Tail(s.history) ELSE s.history,
               <<t, Sgn(s.theta) * MulDiv(Abs(s.theta), 180 * Scale, PI_FP),
                 Sgn(s.omega) * MulDiv(Abs(s.omega), 180 * Scale, PI_FP)>>)]

\* app.rs:136-150: apply_preset(idx)
apply_preset(s, idx) ==
    IF idx + 1 \in DOMAIN Presets
    THEN [s EXCEPT !.length = Presets[idx + 1].length,
                   !.mass = Presets[idx + 1].mass,
                   !.drag = Presets[idx + 1].drag,
                   !.gravity = Presets[idx + 1].gravity,
                   !.initial_theta = ToRadians(Presets[idx + 1].initial_angle),
                   !.theta = ToRadians(Presets[idx + 1].initial_angle),
                   !.omega = 0,
                   !.current_preset = idx,
                   !.history = IF s.auto_reset_history THEN <<>> ELSE @]
    ELSE s

\* app.rs:158-163: clamp_parameters
clamp_parameters(s) ==
    [s EXCEPT !.length = Clamp(@, LENGTH_MIN, LENGTH_MAX),
              !.mass = Clamp(@, MASS_MIN, MASS_MAX),
              !.drag = Clamp(@, 0, DRAG_MAX),
              !.gravity = Clamp(@, GRAVITY_MIN, GRAVITY_MAX)]

\* app.rs:179-181: the pending preset is applied
ApplyPending(s) ==
    IF s.preset_to_apply # None
    THEN [apply_preset(s, s.preset_to_apply[1]) EXCEPT !.preset_to_apply = None,
                                                      !.presetApplied = TRUE]
    ELSE [s EXCEPT !.presetApplied = FALSE]

\* app.rs:185-190: the frame's dt in sub-ticks for the measured time `raw`
\* (ms) and the speed (tenths)
FrameDt(raw, speed) ==
    (Min2(IF raw <= 0 THEN FALLBACK_DT ELSE raw * SubTicksPerMs, SINGLE_CLAMP) * speed) \div 10

\* app.rs:201-348: the control panel with the widget of the event used: the
\* preset box (216-231), the DragValues (235-251), the speed slider (256),
\* the auto-clear box (264), Start/Pause (273-282), Reset (283-293) and
\* Clear Data (294-299)
Controls(s, ev) ==
    IF ev.kind = "preset"
    THEN [s EXCEPT !.current_preset = ev.value, !.preset_to_apply = Some(ev.value)]
    ELSE IF ev.kind = "length" THEN [s EXCEPT !.length = ev.value]
    ELSE IF ev.kind = "mass" THEN [s EXCEPT !.mass = ev.value]
    ELSE IF ev.kind = "drag" THEN [s EXCEPT !.drag = ev.value]
    ELSE IF ev.kind = "gravity" THEN [s EXCEPT !.gravity = ev.value]
    ELSE IF ev.kind = "angle"
    THEN [s EXCEPT !.initial_theta =
              ToRadians(Max2(-ANGLE_LIMIT_DEG, Min2(ev.value, ANGLE_LIMIT_DEG)))]
    ELSE IF ev.kind = "speed"
    THEN [s EXCEPT !.simulation_speed = Max2(SPEED_MIN, Min2(ev.value, SPEED_MAX))]
    ELSE IF ev.kind = "auto" THEN [s EXCEPT !.auto_reset_history = ~@]
    ELSE IF ev.kind = "startPause"
    THEN IF s.running
         THEN [s EXCEPT !.running = FALSE, !.last_update = s.clock]
         ELSE push_history([s EXCEPT !.running = TRUE, !.last_update = s.clock],
                           s.clock - s.start_instant)
    ELSE IF ev.kind = "reset"
    THEN [s EXCEPT !.theta = s.initial_theta,
                   !.omega = 0,
                   !.history = IF s.auto_reset_history THEN <<>> ELSE @,
                   !.start_instant = s.clock,
                   !.uiReset = TRUE]
    ELSE IF ev.kind = "clear" THEN [s EXCEPT !.history = <<>>]
    ELSE s

\* the step of the full max_sub whatever remains
SubStepSize_full(remaining) == MAX_SUB

\* app.rs:576: remaining.min(max_sub)
SubStepSize(remaining) == Min2(remaining, MAX_SUB)

\* app.rs:577-582: the state after rk4_step with the step `step`
SingleStepped(s, r, step, l, m, b, g) ==
    [s EXCEPT !.theta = r.theta, !.omega = r.omega,
              !.remaining = @ - step,
              !.sample_accum = @ + step,
              !.calls = Append(@, [step |-> step, l |-> l, m |-> m, b |-> b, g |-> g])]

\* app.rs:583-587: a sample is recorded once sample_dt has accumulated
SingleSampled(s) ==
    IF s.sample_accum >= SAMPLE_DT
    THEN [push_history(s, s.clock - s.start_instant)
             EXCEPT !.sample_accum = @ - SAMPLE_DT, !.pushes = @ + 1]
    ELSE s

\* app.rs:573-588: while remaining > 0.0 { ... remaining -= step; ... },
\* the local `remaining` kept in the record
RECURSIVE SingleLoop(_, _, _, _, _)
SingleLoop(s, l, m, b, g) ==
    IF s.remaining > 0
    THEN SingleLoop(SingleSampled(SingleStepped(s,
                        rk4_step(s.theta, s.omega, SubStepSize(s.remaining), l, m, b, g),
                        SubStepSize(s.remaining), l, m, b, g)),
                    l, m, b, g)
    ELSE s

\* the physics block run whether the app is running or not
PhysicsRuns_always(s) == TRUE

\* app.rs:572: if self.running
PhysicsRuns(s) == s.running

\* app.rs:566-590: the physics block with the frame's dt
Physics(s, dt) ==
    IF PhysicsRuns(s)
    THEN SingleLoop([s EXCEPT !.remaining = dt],
                    F32MaxOf(s.length, LENGTH_FLOOR), F32MaxOf(s.mass, MASS_FLOOR),
                    F32MaxOf(s.drag, 0), F32MaxOf(s.gravity, GRAVITY_MIN))
    ELSE s

\* app.rs:167-591: PendulumApp::update, `gap` ms after the previous frame,
\* with the widget of the event used
single_frame(s, gap, ev) ==
    Physics(
        Controls(
            clamp_parameters(
                [ApplyPending(s) EXCEPT !.clock = s.clock + gap,
                                        !.last_update = s.clock + gap,
                                        !.frameTime = s.clock + gap - s.last_update,
                                        !.calls = <<>>,
                                        !.remaining = 0,
                                        !.pushes = 0,
                                        !.uiReset = FALSE,
                                        !.frames = @ + 1]),
            ev),
        FrameDt(s.clock + gap - s.last_update, s.simulation_speed))

(* ------------------------------------------------------------------ *)
(* State after construction and the operations                        *)
(* ------------------------------------------------------------------ *)

\* the fields of the app the integration works on
AppState ==
    [n |-> n, params |-> params, theta |-> theta, omega |-> omega,
     histories |-> histories, k1 |-> k1, k2 |-> k2, k3 |-> k3, k4 |-> k4,
     panicked |-> panicked, calls |-> <<>>]

\* gui.rs:23
DefaultParams == [i \in Links |-> [length |-> DEFAULT_LENGTH, mass |-> DEFAULT_MASS]]

\* gui.rs:21-37: the fields of a new app other than the link count, the
\* link parameters, the angles, the angular velocities and the scratch buffers
FreshLinks ==
    /\ init_theta = DefaultTheta
    /\ histories = [i \in Links |-> <<>>]
    /\ last_update = None
    /\ start_time = 0
    /\ now = 0
    /\ panicked = FALSE
    /\ calls = <<>>
    /\ elapsedIn = Fin(0)
    /\ uiReset = FALSE
    /\ nFrames = 0
    /\ nLinkChanges = 0
    /\ nResets = 0
    /\ nHitches = 0
    /\ simulated = 0
    /\ pc = "idle"
    /\ loop_left = 0
    /\ loop_sub = SubStep(0, 1)
    /\ nStable = TRUE

\* the three apps as constructed, the n-pendulum app but for its link count,
\* parameters, angles, angular velocities and scratch buffers
Fresh ==
    /\ FreshLinks
    /\ wave = WaveDefault
    /\ single = SingleDefault

\* no per-link setting is edited in a frame
NoEdit == [field |-> "none", link |-> 0, value |-> 0]

\* an edited length taken as typed
FloorLength_none(v) == v

\* gui.rs:91: len.max(0.01); f32::max returns the other operand for a NaN
FloorLength(v) == IF IsNan(v) THEN MIN_LENGTH ELSE Max2(v, MIN_LENGTH)

\* gui.rs:97: mass.max(0.001)
FloorMass(v) == IF IsNan(v) THEN MIN_MASS ELSE Max2(v, MIN_MASS)

\* gui.rs:86-107: the per-link settings after the edit of one DragValue
EditParams(prm, edit) ==
    IF edit.field = "length"
    THEN [prm EXCEPT ![edit.link].length = FloorLength(edit.value)]
    ELSE IF edit.field = "mass"
    THEN [prm EXCEPT ![edit.link].mass = FloorMass(edit.value)]
    ELSE prm

EditInitTheta(initTh, edit) ==
    IF edit.field = "angle"
    THEN [initTh EXCEPT ![edit.link] = ToRadians(edit.value)]
    ELSE initTh

\* gui.rs:21-37: NPendulumApp::default, with link count n0
Default(n0) ==
    /\ n = n0
    /\ params = DefaultParams
    /\ theta = DefaultTheta
    /\ omega = [i \in Links |-> 0]
    /\ k1 = [j \in Slots |-> 0]
    /\ k2 = [j \in Slots |-> 0]
    /\ k3 = [j \in Slots |-> 0]
    /\ k4 = [j \in Slots |-> 0]
    /\ Fresh

Init == Default(DEFAULT_N) /\ spacing = 0

\* gui.rs:63-186: one frame. `gap` ticks have passed since the previous
\* frame, the slider is dragged to `drag`, Reset is clicked or not, and then
\* one per-link setting of an active link is edited or none is.
update(gap, drag, resetClicked, edit) ==
    /\ ~panicked
    /\ edit.field # "none" => edit.link < Slider(drag)
    /\ nFrames < MaxFrames
    /\ Slider(drag) # n => nLinkChanges < MaxLinkChanges
    /\ resetClicked => nResets < MaxResets
    /\ gap = Hitch => nHitches < MaxHitches
    /\ LET newN == Slider(drag)
           clock == now + gap
           r == IF resetClicked
                THEN reset_state(newN, theta, omega, histories, init_theta)
                ELSE [theta |-> theta, omega |-> omega, histories |-> histories]
           last == IF resetClicked THEN None ELSE last_update
           start == IF resetClicked THEN clock ELSE start_time
           e == IF last = None THEN Fin(0) ELSE Fin(clock - last[1])
       IN  \E st \in {Integrate(e, clock - start,
                          [AppState EXCEPT !.n = newN, !.theta = r.theta,
                                           !.omega = r.omega,
                                           !.histories = r.histories,
                                           !.params = EditParams(params, edit)])} :
           /\ now' = clock
           /\ n' = newN
           /\ start_time' = start
           /\ last_update' = Some(clock)
           /\ elapsedIn' = e
           /\ uiReset' = resetClicked
           /\ theta' = st.theta
           /\ omega' = st.omega
           /\ histories' = st.histories
           /\ k1' = st.k1 /\ k2' = st.k2 /\ k3' = st.k3 /\ k4' = st.k4
           /\ panicked' = st.panicked
           /\ calls' = st.calls
           /\ simulated' = simulated + IntegratedBy(st)
    /\ nFrames' = nFrames + 1
    /\ nLinkChanges' = IF Slider(drag) # n THEN nLinkChanges + 1 ELSE nLinkChanges
    /\ nResets' = IF resetClicked THEN nResets + 1 ELSE nResets
    /\ nHitches' = IF gap = Hitch THEN nHitches + 1 ELSE nHitches
    /\ params' = EditParams(params, edit)
    /\ init_theta' = EditInitTheta(init_theta, edit)
    /\ nStable' = IF resetClicked THEN TRUE ELSE nStable /\ Slider(drag) = n
    /\ UNCHANGED <<single, wave, spacing, pc, loop_left, loop_sub>>

Next == \E gap \in Gaps, drag \in SliderDrags, resetClicked \in BOOLEAN :
            update(gap, drag, resetClicked, NoEdit)

Spec == Init /\ [][Next]_vars

(* ------------------------------------------------------------------ *)
(* Frames in which the per-link settings are edited                   *)
(* ------------------------------------------------------------------ *)

\* what is typed into a length (cm) or mass (g) field: negative, zero,
\* regular, NaN and the infinities
EditValues == {-5, 0, 50, 250, NAN_FP, INF_FP, -INF_FP}

\* what is typed into an initial-angle field (degrees)
EditAngles == {30, -45}

\* the edits of a frame with nn links: none, or one field of the first or of
\* the last active link
ParamEdits(nn) ==
    {NoEdit}
    \cup {[field |-> f, link |-> i, value |-> v] :
             f \in {"length", "mass"}, i \in {0, nn - 1}, v \in EditValues}
    \cup {[field |-> "angle", link |-> i, value |-> v] :
             i \in {0, nn - 1}, v \in EditAngles}

\* gui.rs:63-186: a frame 3 ms after the previous one with one edit
edit_frame(edit) == nFrames < MaxEditFrames /\ update(3, n, FALSE, edit)

NextParams == \E edit \in ParamEdits(n) : edit_frame(edit)

SpecParams == Init /\ [][NextParams]_vars

(* ------------------------------------------------------------------ *)
(* The pendulum-wave app                                              *)
(* ------------------------------------------------------------------ *)

\* seconds of GUI time between two frames: a frame at 60 Hz, or a second
\* (a paused app repaints only on input)
WaveGaps == {16, TicksPerSecond}

\* app.rs:26-62: one frame, `gap` ticks after the previous one, with the
\* Pause/Resume and Reset buttons clicked or not
wave_update(gap, pauseClicked, resetClicked) ==
    /\ wave.frames < MaxWaveFrames
    /\ \E w \in {WaveButtons(update_simulation(wave, wave.clock + gap),
                             pauseClicked, resetClicked)} :
           wave' = [w EXCEPT !.clock = wave.clock + gap,
                             !.unpaused = Unpaused(wave, gap, resetClicked),
                             !.stamped = IF resetClicked THEN FALSE
                                         ELSE wave.stamped \/ ~wave.paused,
                             !.uiReset = resetClicked,
                             !.frames = @ + 1]
    /\ UNCHANGED <<npendulum, single>>

NextWave == \E gap \in WaveGaps, pauseClicked \in BOOLEAN, resetClicked \in BOOLEAN :
                wave_update(gap, pauseClicked, resetClicked)

SpecWave == Init /\ [][NextWave]_vars

(* ------------------------------------------------------------------ *)
(* The single-pendulum app                                            *)
(* ------------------------------------------------------------------ *)

\* the widgets used in a frame: a preset picked, a parameter typed (0.05 m,
\* 50 m, NaN, 0 kg, drag 3, gravity 0), an initial angle of 200 degrees, the
\* speed slider dragged to its upper end, the auto-clear box, the buttons
SingleEvents ==
    {[kind |-> "none", value |-> 0],
     [kind |-> "preset", value |-> 2],
     [kind |-> "length", value |-> 5], [kind |-> "length", value |-> 5000],
     [kind |-> "length", value |-> NAN_FP],
     [kind |-> "mass", value |-> 0],
     [kind |-> "drag", value |-> 3000],
     [kind |-> "gravity", value |-> 0],
     [kind |-> "angle", value |-> 200],
     [kind |-> "speed", value |-> 60],
     [kind |-> "auto", value |-> 0],
     [kind |-> "startPause", value |-> 0],
     [kind |-> "reset", value |-> 0],
     [kind |-> "clear", value |-> 0]}

\* app.rs:167-591: one frame
single_update(gap, ev) ==
    /\ single.frames < MaxSingleFrames
    /\ single' = single_frame(single, gap, ev)
    /\ UNCHANGED <<npendulum, wave>>

\* the ms between two frames: none, a frame at 60 Hz, a hitch
NextSingle == \E gap \in {0, 16, 70}, ev \in SingleEvents : single_update(gap, ev)

SpecSingle == Init /\ [][NextSingle]_vars

\* the app with a history a few samples short of its capacity, recorded
\* every 17 ms at rest (0.35 rad = 20.0535 degrees), and paused
InitSingleHistory ==
    /\ n = DEFAULT_N
    /\ params = DefaultParams
    /\ theta = DefaultTheta
    /\ omega = [i \in Links |-> 0]
    /\ k1 = [j \in Slots |-> 0]
    /\ k2 = [j \in Slots |-> 0]
    /\ k3 = [j \in Slots |-> 0]
    /\ k4 = [j \in Slots |-> 0]
    /\ FreshLinks
    /\ wave = WaveDefault
    /\ spacing = 0
    /\ single = [SingleDefault EXCEPT
                    !.history = [j \in 1 .. (HISTORY_CAPACITY - HistoryHeadroom) |->
                                     <<17 * j, 200535, 0>>],
                    !.clock = 17 * HISTORY_CAPACITY,
                    !.last_update = 17 * HISTORY_CAPACITY]

\* app.rs:167-591: one frame 50 ms after the previous one
history_frame(ev) ==
    /\ single.frames < MaxHistoryFrames
    /\ single' = single_frame(single, 50, ev)
    /\ UNCHANGED <<npendulum, wave>>

\* the widgets used in these frames: none, the auto-clear box, Start/Pause
NextSingleHistory ==
    \E kind \in {"none", "auto", "startPause"} : history_frame([kind |-> kind, value |-> 0])

SpecSingleHistory == InitSingleHistory /\ [][NextSingleHistory]_vars

(* ------------------------------------------------------------------ *)
(* The sub-step controller driven by a host that passes the elapsed   *)
(* time and owns the (public) link count                              *)
(* ------------------------------------------------------------------ *)

\* link counts of a host, the invalid ones 0 and MAX_LINKS + 1 included
HostLinkCounts == 0 .. (MAX_LINKS + 1)

InitCore == (\E n0 \in HostLinkCounts : Default(n0)) /\ spacing = 0

\* gui.rs:115-116 with the elapsed time e
AdvanceBy(e) ==
    /\ ~panicked
    /\ LET clock == now + (IF e.kind = "fin" /\ e.v > 0 THEN e.v ELSE 0)
       IN  \E st \in {Integrate(e, clock - start_time, AppState)} :
           /\ now' = clock
           /\ elapsedIn' = e
           /\ theta' = st.theta
           /\ omega' = st.omega
           /\ histories' = st.histories
           /\ k1' = st.k1 /\ k2' = st.k2 /\ k3' = st.k3 /\ k4' = st.k4
           /\ panicked' = st.panicked
           /\ calls' = st.calls
           /\ simulated' = simulated + IntegratedBy(st)
    /\ nFrames' = nFrames + 1
    /\ UNCHANGED <<single, wave, nStable, n, params, init_theta, last_update, start_time, uiReset,
                   nLinkChanges, nResets, nHitches, spacing, pc, loop_left, loop_sub>>

\* one call of the host with the elapsed time e
advance(e) == nFrames < MaxAdvance /\ AdvanceBy(e)

NextCore == \E e \in ElapsedInputs : advance(e)

SpecCore == InitCore /\ [][NextCore]_vars

(* ------------------------------------------------------------------ *)
(* The history buffers driven by direct calls of push_histories       *)
(* ------------------------------------------------------------------ *)

InitHistory == Default(DEFAULT_N) /\ spacing \in Spacings

\* gui.rs:53-59, called `spacing` ticks after the previous call
push_sample ==
    /\ nFrames < MaxPushes
    /\ now' = now + spacing
    /\ histories' = push_histories(n, histories, theta, now' - start_time)
    /\ calls' = <<PushCall(SubStep(0, 1), now' - start_time)>>
    /\ nFrames' = nFrames + 1
    /\ UNCHANGED <<single, wave, nStable, n, params, theta, omega, init_theta, last_update, start_time,
                   k1, k2, k3, k4, panicked, elapsedIn, uiReset,
                   nLinkChanges, nResets, nHitches, spacing,
                   simulated, pc, loop_left, loop_sub>>

NextHistory == push_sample

SpecHistory == InitHistory /\ [][NextHistory]_vars

(* ------------------------------------------------------------------ *)
(* deriv_impl and step_rk4 called directly, on arrays the caller filled *)
(* ------------------------------------------------------------------ *)

DerivCall == [op |-> "deriv", dt |-> SubStep(0, 1), t |-> 0]

\* gui.rs:47-49: the lengths and masses of links 0..n-1
Lengths == Array([i \in 0 .. (n - 1) |-> params[i].length])
Masses == Array([i \in 0 .. (n - 1) |-> params[i].mass])

\* link b has the parameters p and the angle a; the links move or rest; the
\* slots of the inactive links and the scratch buffers are zero or, when
\* `dirty`, hold what earlier calls left in them
InitKernel ==
    \E n0 \in KernelLinkCounts, p \in KernelParams, a \in KernelAngles,
       moving \in BOOLEAN, dirty \in BOOLEAN :
        \E b \in 0 .. (n0 - 1) :
            /\ n = n0
            /\ params = [i \in Links |->
                           IF i = b THEN [length |-> p[1], mass |-> p[2]]
                           ELSE IF i < n0 \/ ~dirty THEN DefaultParams[i]
                           ELSE [length |-> 37, mass |-> 11]]
            /\ theta = [i \in Links |->
                          IF i = b THEN a
                          ELSE IF i < n0 \/ ~dirty THEN DefaultTheta[i]
                          ELSE 12345]
            /\ omega = [i \in Links |->
                          IF i < n0 THEN (IF moving THEN 2500 - 1000 * i ELSE 0)
                          ELSE IF dirty THEN -777 ELSE 0]
            /\ k1 = [j \in Slots |-> IF dirty THEN 100 + j ELSE 0]
            /\ k2 = [j \in Slots |-> IF dirty THEN 200 + j ELSE 0]
            /\ k3 = [j \in Slots |-> IF dirty THEN 300 + j ELSE 0]
            /\ k4 = [j \in Slots |-> IF dirty THEN 400 + j ELSE 0]
            /\ Fresh
            /\ spacing = 0

\* pendulum.rs:24-32: deriv_impl on the packed state, written to k1
call_deriv ==
    /\ nFrames < MaxKernelCalls
    /\ k1' = deriv_impl(n, Lengths, Masses, Pack(n, theta, omega), k1)
    /\ calls' = <<DerivCall>>
    /\ nFrames' = nFrames + 1
    /\ UNCHANGED <<single, wave, nStable, n, params, theta, omega, init_theta, histories, last_update,
                   start_time, k2, k3, k4, now, panicked, elapsedIn, uiReset,
                   nLinkChanges, nResets, nHitches, spacing,
                   simulated, pc, loop_left, loop_sub>>

\* gui.rs:45-51 and solver.rs:5-31: one RK4 step of size dt
StepBy(dt) ==
    /\ \E r \in {app_step_rk4(n, params, theta, omega, dt, k1, k2, k3, k4)} :
           /\ theta' = r.theta
           /\ omega' = r.omega
           /\ k1' = r.k1 /\ k2' = r.k2 /\ k3' = r.k3 /\ k4' = r.k4
    /\ calls' = <<StepCall(dt, 0)>>
    /\ simulated' = simulated + dt.num \div dt.den
    /\ nFrames' = nFrames + 1
    /\ UNCHANGED <<single, wave, nStable, n, params, init_theta, histories, last_update, start_time,
                   now, panicked, elapsedIn, uiReset,
                   nLinkChanges, nResets, nHitches, spacing,
                   pc, loop_left, loop_sub>>

call_step_rk4(dt) == nFrames < MaxKernelCalls /\ StepBy(dt)

NextKernel == call_deriv \/ \E dt \in KernelSteps : call_step_rk4(dt)

SpecKernel == InitKernel /\ [][NextKernel]_vars

(* ------------------------------------------------------------------ *)
(* A span of time fed to the sub-step controller in equal calls       *)
(* ------------------------------------------------------------------ *)

InitSpan == (\E n0 \in SpanLinkCounts : Default(n0)) /\ spacing \in SpanSpacings

\* gui.rs:115-116 with the elapsed time `spacing`, until the span is fed
advance_span ==
    /\ nFrames < MaxSpanCalls
    /\ nFrames * spacing < SpanOf(spacing)
    /\ AdvanceBy(Fin(spacing))

NextSpan == advance_span

SpecSpan == InitSpan /\ [][NextSpan]_vars

(* ------------------------------------------------------------------ *)
(* The sub-step loop of a call, one iteration at a time               *)
(* ------------------------------------------------------------------ *)

InitLoop == Default(DEFAULT_N) /\ spacing = 0

\* a loop counter that is not counted down
LoopLeft_stuck(k) == k

\* gui.rs:116: `for _ in 0..steps` counts one iteration off
LoopLeft(k) == k - 1

\* gui.rs:113-116: the elapsed time e is clamped; if the result is > 0 the
\* step count and the sub-step size are fixed and the loop is entered
frame_begin(e) ==
    /\ pc = "idle"
    /\ ~panicked
    /\ nFrames < MaxLoopFrames
    /\ elapsedIn' = e
    /\ calls' = <<>>
    /\ now' = now + (IF e.kind = "fin" /\ e.v > 0 THEN e.v ELSE 0)
    /\ LET dt == ClampDt(e)
       IN  IF F32Lt(Fin(0), dt)
           THEN /\ pc' = "loop"
                /\ loop_left' = StepCount(dt.v)
                /\ loop_sub' = SubStep(dt.v, StepCount(dt.v))
                /\ nFrames' = nFrames
           ELSE /\ nFrames' = nFrames + 1
                /\ UNCHANGED <<pc, loop_left, loop_sub>>
    /\ UNCHANGED <<single, wave, nStable, n, params, theta, omega, init_theta, histories, last_update,
                   start_time, k1, k2, k3, k4, panicked, uiReset,
                   nLinkChanges, nResets, nHitches, spacing, simulated>>

\* gui.rs:116: one iteration: self.step_rk4(sub); self.push_histories();
frame_substep ==
    /\ pc = "loop"
    /\ loop_left > 0
    /\ Len(calls) < 2 * MaxLoopSteps
    /\ \E st \in {SubstepBody(loop_sub, now - start_time,
                               [AppState EXCEPT !.calls = calls])} :
           /\ theta' = st.theta
           /\ omega' = st.omega
           /\ histories' = st.histories
           /\ k1' = st.k1 /\ k2' = st.k2 /\ k3' = st.k3 /\ k4' = st.k4
           /\ panicked' = st.panicked
           /\ calls' = st.calls
    /\ loop_left' = LoopLeft(loop_left)
    /\ UNCHANGED <<single, wave, nStable, n, params, init_theta, last_update, start_time, now,
                   elapsedIn, uiReset, nFrames, nLinkChanges, nResets, nHitches,
                   spacing, simulated, pc, loop_sub>>

\* gui.rs:116: the range 0..steps is exhausted and the call returns
frame_end ==
    /\ pc = "loop"
    /\ loop_left = 0
    /\ pc' = "idle"
    /\ nFrames' = nFrames + 1
    /\ simulated' = simulated + IntegratedBy([calls |-> calls, panicked |-> panicked])
    /\ UNCHANGED <<single, wave, nStable, n, params, theta, omega, init_theta, histories, last_update,
                   start_time, k1, k2, k3, k4, now, panicked, calls, elapsedIn,
                   uiReset, nLinkChanges, nResets, nHitches, spacing,
                   loop_left, loop_sub>>

NextLoop == (\E e \in ElapsedInputs : frame_begin(e)) \/ frame_substep \/ frame_end

SpecLoop == InitLoop /\ [][NextLoop]_vars

\* gui.rs:116: the condition under which the loop body runs once more (the
\* guard of frame_substep, i.e. ENABLED <<frame_substep>>_vars)
IterationEnabled == pc = "loop" /\ loop_left > 0 /\ Len(calls) < 2 * MaxLoopSteps

\* the thread that runs the call keeps running: an iteration that can be
\* taken is taken, and so is the return. The first fairness condition is
\* WF_vars(frame_substep) with its enabling condition written out.
LiveSpecLoop ==
    /\ SpecLoop
    /\ ([]<>~IterationEnabled \/ []<><<frame_substep>>_vars)
    /\ WF_vars(frame_end)

(* ------------------------------------------------------------------ *)
(* A single link stepped with a fixed dt                              *)
(* ------------------------------------------------------------------ *)

\* one link of length 1 and mass 1 released at rest from 0.3 rad
InitEnergy ==
    /\ n = 1
    /\ params = DefaultParams
    /\ theta = [i \in Links |-> IF i = 0 THEN 3000 ELSE 0]
    /\ omega = [i \in Links |-> 0]
    /\ k1 = [j \in Slots |-> 0]
    /\ k2 = [j \in Slots |-> 0]
    /\ k3 = [j \in Slots |-> 0]
    /\ k4 = [j \in Slots |-> 0]
    /\ Fresh
    /\ spacing = 0

\* gui.rs:45-51 and solver.rs:5-31: one RK4 step of dt = 0.005
energy_step == nFrames < MaxRk4Steps /\ StepBy(SubStep(SUBSTEP_TICKS, 1))

NextEnergy == energy_step

SpecEnergy == InitEnergy /\ [][NextEnergy]_vars

(* ------------------------------------------------------------------ *)
(* Claims                                                             *)
(* ------------------------------------------------------------------ *)

\* the calls of the last handler to the RK4 stepper, in order
StepCalls == SelectSeq(calls, LAMBDA c : c.op = "step")

\* the number of ticks an elapsed time stands for once limited to
\* [0, 0.05 s] (NaN has no such value)
ClaimClamp(e) ==
    IF e.kind = "pinf" THEN FRAME_CLAMP_TICKS
    ELSE IF e.kind = "ninf" THEN 0
    ELSE IF e.v > FRAME_CLAMP_TICKS THEN FRAME_CLAMP_TICKS
    ELSE IF e.v < 0 THEN 0 ELSE e.v

\* max(1, ceil(d / 0.005)) for d > 0: the least count of 5 ms steps covering d
ClaimSteps(d) == CHOOSE c \in 1 .. d : c * SUBSTEP_TICKS >= d /\ (c - 1) * SUBSTEP_TICKS < d

ValidLinkCount == n \in 1 .. MAX_LINKS

\* C1: every call the frame update makes to the RK4 stepper gets a
\* sub-step size dt with 0 < dt <= 0.005 s, whatever the elapsed time.
C1_SubStepBounded ==
    \A j \in 1 .. Len(calls) :
        calls[j].op = "step" =>
            /\ calls[j].dt.den > 0
            /\ calls[j].dt.num > 0
            /\ calls[j].dt.num <= SUBSTEP_TICKS * calls[j].dt.den

\* a 10 s frame hitch was split into ten steps of exactly 5 ms
C1_Witness ==
    /\ elapsedIn = Fin(10 * TicksPerSecond)
    /\ Len(StepCalls) = 10
    /\ \A j \in 1 .. 10 : StepCalls[j].dt.num = SUBSTEP_TICKS * StepCalls[j].dt.den

\* h2 is h with some samples evicted from the front and exactly k samples
\* appended, all stamped t, the last of them holding the value v
AppendedExactly(h, h2, k, t, v) ==
    /\ Len(h2) >= k
    /\ \E d \in 0 .. Len(h) :
          /\ Len(h2) = Len(h) - d + k
          /\ \A m \in 1 .. (Len(h) - d) : h2[m] = h[d + m]
    /\ \A m \in (Len(h2) - k + 1) .. Len(h2) : h2[m][1] = t
    /\ h2[Len(h2)][2] = v

\* C2: when the clamped elapsed time D is > 0 the update runs exactly
\* steps = max(1, ceil(D / 0.005)) sub-steps of size D / steps, each followed
\* by one push_histories call, so that every active link gets exactly
\* `steps` new samples.
C2_StepsAndSamples ==
    [][ (/\ nFrames' = nFrames + 1
         /\ elapsedIn'.kind # "nan"
         /\ ClaimClamp(elapsedIn') > 0
         /\ ValidLinkCount)
        => LET d == ClaimClamp(elapsedIn')
               steps == ClaimSteps(d)
           IN  /\ Len(calls') = 2 * steps
               /\ \A j \in 1 .. steps :
                     /\ calls'[2 * j - 1].op = "step"
                     /\ calls'[2 * j - 1].dt.num * steps = d * calls'[2 * j - 1].dt.den
                     /\ calls'[2 * j].op = "push"
               /\ \A i \in 0 .. (n - 1) :
                     AppendedExactly(histories[i], histories'[i], steps,
                                     now' - start_time, theta'[i]) ]_vars

\* an elapsed time of 12 ms ran 3 sub-steps of 4 ms and left 3 samples per link
C2_Witness ==
    /\ elapsedIn = Fin(12)
    /\ n = MAX_LINKS
    /\ Len(calls) = 6
    /\ calls[5].dt = [num |-> 12, den |-> 3]
    /\ \A i \in 0 .. (n - 1) : Len(histories[i]) = 3

RECURSIVE SumNum(_)
SumNum(sq) == IF sq = <<>> THEN 0 ELSE Head(sq).dt.num + SumNum(Tail(sq))

\* C3: the sub-step sizes of one frame add up to the elapsed time clamped
\* to [0, 0.05 s]; an elapsed time above 0.05 s integrates exactly 0.05 s in
\* at most 10 sub-steps.
C3_TotalIsClampedElapsed ==
    (nFrames > 0 /\ elapsedIn.kind # "nan" /\ ~panicked) =>
        /\ Len(StepCalls) <= 10
        /\ IF StepCalls = <<>> THEN ClaimClamp(elapsedIn) = 0
           ELSE /\ \A j \in 1 .. Len(StepCalls) :
                      StepCalls[j].dt.den = StepCalls[1].dt.den
                /\ SumNum(StepCalls) = ClaimClamp(elapsedIn) * StepCalls[1].dt.den

\* 10 s elapsed, 0.05 s integrated in 10 steps
C3_Witness ==
    /\ elapsedIn = Fin(10 * TicksPerSecond)
    /\ ~panicked
    /\ Len(StepCalls) = 10
    /\ SumNum(StepCalls) = FRAME_CLAMP_TICKS * StepCalls[1].dt.den

C5_ZeroElapsedChangesNothing ==
    [][ nFrames' = nFrames + 1 =>
          /\ (last_update = None \/ uiReset') => elapsedIn' = Fin(0)
          /\ ClaimClamp(elapsedIn') = 0 =>
               /\ calls' = <<>>
               /\ \A i \in Links :
                     IF uiReset' /\ i < n'
                     THEN /\ theta'[i] = init_theta[i]
                          /\ omega'[i] = 0
                          /\ histories'[i] = <<>>
                     ELSE /\ theta'[i] = theta[i]
                          /\ omega'[i] = omega[i]
                          /\ histories'[i] = histories[i] ]_vars

\* a later frame found no time elapsed and left a running simulation alone
C5_Witness ==
    /\ nFrames >= 3
    /\ elapsedIn = Fin(0)
    /\ ~uiReset
    /\ calls = <<>>
    /\ histories[0] # <<>>
    /\ omega[0] # 0

C7_LinkCountInRange == n >= 1 /\ n <= MAX_LINKS

\* the slider was dragged below its range, Reset was clicked, frames ran
C7_Witness ==
    /\ n = 1
    /\ nLinkChanges >= 1
    /\ nResets >= 1
    /\ nFrames >= 3

Stamps(h) == {h[m][1] : m \in 1 .. Len(h)}

\* C8 (as claimed): every active link's history holds at most
\* HISTORY_SAMPLES samples and its timestamps span at most HISTORY_SECONDS.
C8_HistoryBounded ==
    \A i \in 0 .. (n - 1) :
        /\ Len(histories[i]) <= HISTORY_SAMPLES
        /\ \A a, b \in Stamps(histories[i]) : a - b <= HistoryWindow

\* C9 (as claimed): the samples of every link's history are in
\* non-decreasing timestamp order.
C9_TimestampsOrdered ==
    \A i \in Links :
        \A m \in 1 .. (Len(histories[i]) - 1) :
            histories[i][m][1] <= histories[i][m + 1][1]

\* C10: after k pushes with non-decreasing timestamps that all lie within
\* 60 s of the newest, the buffer holds exactly the last min(k, 1024) pushed
\* samples in insertion order.
C10_FifoWindow ==
    (nFrames - 1) * spacing <= HistoryWindow =>
        \A i \in 0 .. (n - 1) :
            LET kept == Min2(nFrames, HISTORY_SAMPLES)
            IN  histories[i] =
                    [m \in 1 .. kept |->
                        <<(nFrames - kept + m) * spacing, theta[i]>>]

\* 2000 pushes at 1 ms spacing left the samples stamped 977 .. 2000
C10_Witness ==
    /\ spacing = 1
    /\ nFrames = 2000
    /\ Len(histories[0]) = HISTORY_SAMPLES
    /\ Head(histories[0])[1] = 977
    /\ histories[0][HISTORY_SAMPLES][1] = 2000

\* C11: a reset with link count n leaves, for every link i < n, the angle at
\* init_theta[i], the angular velocity at 0 and the history empty.
C11_ResetRestoresActiveLinks ==
    uiReset =>
        \A i \in 0 .. (n - 1) :
            /\ theta[i] = init_theta[i]
            /\ omega[i] = 0
            /\ histories[i] = <<>>

\* Reset was clicked with the slider at 1 after three links had been
\* integrated: link 0 is back at its initial angle and at rest with an empty
\* history, link 1 is still where the integration left it
C11_Witness ==
    /\ uiReset
    /\ n = 1
    /\ theta[0] = init_theta[0] /\ omega[0] = 0 /\ histories[0] = <<>>
    /\ omega[1] # 0 /\ histories[1] # <<>>

\* link i has a finite length and mass, one of them 0
ZeroInertia(i) ==
    /\ IsFinite(params[i].length) /\ IsFinite(params[i].mass)
    /\ (params[i].length = 0 \/ params[i].mass = 0)

\* the last call was a direct call of deriv_impl / of step_rk4
DerivCalled == calls # <<>> /\ calls[1].op = "deriv"
StepCalled == calls # <<>> /\ calls[1].op = "step"

\* C12: for a link whose mass or length is 0 every derivative evaluation -
\* the one of a direct call and the four of a step - outputs the angular
\* acceleration 0, whatever the angles of the link and of its neighbours.
C12_ZeroInertiaZeroAcceleration ==
    [][ nFrames' = nFrames + 1 =>
          \A i \in 0 .. (n - 1) :
              ZeroInertia(i) =>
                  /\ k1'[2 * i + 1] = 0
                  /\ StepCalled' =>
                        /\ k2'[2 * i + 1] = 0
                        /\ k3'[2 * i + 1] = 0
                        /\ k4'[2 * i + 1] = 0 ]_vars

\* a step of three links, the middle one without mass and at the angle NaN:
\* its acceleration is 0 in the last stage, that of its neighbour is NaN
C12_Witness ==
    /\ StepCalled
    /\ n = 3
    /\ params[1].mass = 0
    /\ IsNan(theta[1])
    /\ k1[3] = 0 /\ k2[3] = 0 /\ k3[3] = 0 /\ k4[3] = 0
    /\ IsNan(k4[1])

\* C13 (as claimed): the derivative function never outputs a NaN or infinite
\* angular acceleration, also not for a link with a length <= 0, a mass <= 0
\* or a NaN or infinite parameter or angle (such a link counts as degenerate).
C13_AccelerationAlwaysFinite ==
    [][ (nFrames' = nFrames + 1 /\ DerivCalled') =>
          \A i \in 0 .. (n - 1) : IsFinite(k1'[2 * i + 1]) ]_vars

\* the arrays of the app with the slots of the links >= n blanked
CleanParams == [i \in Links |-> IF i < n THEN params[i] ELSE DefaultParams[i]]
CleanTheta == [i \in Links |-> IF i < n THEN theta[i] ELSE 0]
CleanOmega == [i \in Links |-> IF i < n THEN omega[i] ELSE 0]
ZeroSlots == [j \in Slots |-> 0]

\* C14: the angles and angular velocities a step produces, and the
\* derivative a direct call produces, are those of the same call made with
\* zeroed scratch buffers and with blank slots for the links >= n: they
\* depend on n, on the parameters and state of links 0..n-1 and on dt only.
C14_IndependentOfScratchAndInactive ==
    [][ nFrames' = nFrames + 1 =>
          /\ StepCalled' =>
                \A r \in {app_step_rk4(n, CleanParams, CleanTheta, CleanOmega,
                                        calls'[1].dt,
                                        ZeroSlots, ZeroSlots, ZeroSlots, ZeroSlots)} :
                    /\ \A i \in 0 .. (n - 1) :
                          theta'[i] = r.theta[i] /\ omega'[i] = r.omega[i]
                    /\ \A j \in 0 .. (2 * n - 1) :
                          /\ k1'[j] = r.k1[j] /\ k2'[j] = r.k2[j]
                          /\ k3'[j] = r.k3[j] /\ k4'[j] = r.k4[j]
          /\ DerivCalled' =>
                \A d \in {deriv_impl(n, Lengths, Masses,
                                      Pack(n, CleanTheta, CleanOmega), ZeroSlots)} :
                    \A j \in 0 .. (2 * n - 1) : k1'[j] = d[j] ]_vars

\* a step of two moving links was made with scratch buffers and inactive
\* slots that held values of earlier calls
C14_Witness ==
    /\ StepCalled
    /\ n = 2
    /\ theta[2] = 12345 /\ omega[2] = -777 /\ k1[13] = 113 /\ k4[13] = 413
    /\ IsFinite(theta[0]) /\ IsFinite(theta[1])
    /\ omega[0] # 2500 /\ omega[0] # 0
    /\ k2[1] # 201 /\ k2[1] # 0

FreshAppState ==
    [AppState EXCEPT !.theta = DefaultTheta, !.omega = [i \in Links |-> 0],
                     !.histories = [i \in Links |-> <<>>],
                     !.k1 = ZeroSlots, !.k2 = ZeroSlots,
                     !.k3 = ZeroSlots, !.k4 = ZeroSlots]

C16_FrameTouchesActiveLinksOnly ==
    [][ nFrames' = nFrames + 1 =>
          /\ params' = params
          /\ init_theta' = init_theta
          /\ \A i \in Links :
                i >= n' =>
                    /\ theta'[i] = theta[i]
                    /\ omega'[i] = omega[i]
                    /\ histories'[i] = histories[i] ]_vars

\* a frame integrated one link after an earlier frame had integrated three:
\* link 1 still moves as that earlier frame left it and has fewer samples
C16_Witness ==
    /\ n = 1
    /\ calls # <<>>
    /\ omega[0] # 0
    /\ omega[1] # 0
    /\ histories[1] # <<>>
    /\ Len(histories[0]) > Len(histories[1])
    /\ params = DefaultParams

\* C17: every call that has entered the sub-step loop runs the iterations
\* fixed at its start to completion and returns, for every elapsed time.
C17_AdvanceTerminates == (pc = "loop") ~> (pc = "idle" /\ loop_left = 0)

\* a call with the elapsed time +inf has run its ten sub-steps and returned
C17_Witness ==
    /\ pc = "idle"
    /\ nFrames = 1
    /\ elapsedIn = PosInf
    /\ loop_left = 0
    /\ Len(calls) = 20
    /\ simulated = FRAME_CLAMP_TICKS

\* 1 - cos(x) in units of 1e-8 for an angle x of at most about 1 rad
\* (x^2/2 - x^4/24 + x^6/720)
OneMinusCos(x) ==
    LET t2 == x * x
        a == RDiv(t2, 1000)
    IN  RDiv(t2, 2) - RDiv(a * a, 2400) + RDiv(RDiv(a * a, 10000) * a, 720000)

\* m*g*l*(1 - cos(theta)) + 0.5*m*(l*omega)^2 for m = l = 1 and g = 9.81,
\* in units of 1e-8 J
Energy(th, om) ==
    LET c == OneMinusCos(th)
    IN  c * (G_CM \div 100) + RDiv(c * (G_CM % 100), 100) + RDiv(om * om, 2)

\* C18: a single link (n = 1, length 1, mass 1) released at rest from 0.3 rad
\* has, after 1000 RK4 steps of dt = 0.005, a total mechanical energy within
\* 0.5% of its initial value.
C18_EnergyConserved ==
    nFrames = 1000 =>
        Abs(Energy(theta[0], omega[0]) - Energy(3000, 0))
            <= Energy(3000, 0) \div 200

\* the link has been stepped 1000 times (5 s, about two and a half periods)
\* and is in motion
C18_Witness ==
    /\ nFrames = 1000
    /\ n = 1
    /\ simulated = 1000 * SUBSTEP_TICKS
    /\ omega[0] # 0
    /\ Abs(theta[0]) <= 3010

\* a / b rounded to nearest, for integers a and b # 0
ClaimQuot(a, b) == Sgn(a) * Sgn(b) * ((Abs(a) + Abs(b) \div 2) \div Abs(b))

\* link i has a finite, non-zero length and mass, and its angle and the
\* angles of its neighbours are finite
RegularLink(i) ==
    /\ IsFinite(params[i].length) /\ params[i].length # 0
    /\ IsFinite(params[i].mass) /\ params[i].mass # 0
    /\ \A j \in {i - 1, i, i + 1} \cap (0 .. (n - 1)) : IsFinite(theta[j])

\* -g/length[i]*sin(angle[i]) - k*(angle[i]-angle[i-1]) [i > 0]
\*                            - k*(angle[i]-angle[i+1]) [i+1 < n]
ClaimTorque(i) ==
    ClaimQuot(-G_CM * sin(theta[i]), params[i].length)
        - (IF i > 0 THEN K_COUPLING * (theta[i] - theta[i - 1]) ELSE 0)
        - (IF i + 1 < n THEN K_COUPLING * (theta[i] - theta[i + 1]) ELSE 0)

\* torque / (mass[i] * length[i]^2), the mass in grams and the length in cm
ClaimAccel(i) ==
    ClaimQuot(ClaimQuot(ClaimTorque(i) * 1000, params[i].mass) * 10000,
              params[i].length * params[i].length)

\* C19: for every link i < n with non-degenerate inertia the computed
\* angular acceleration is (-g/length[i]*sin(angle[i]) - k*(angle[i] -
\* angle[i-1]) [only if i > 0] - k*(angle[i]-angle[i+1]) [only if i+1 < n]) /
\* (mass[i]*length[i]^2): a function of the angles of links i-1, i, i+1 and
\* of link i's own parameters, the same whether the links move or rest.
C19_AccelerationFormula ==
    [][ nFrames' = nFrames + 1 =>
          \A i \in 0 .. (n - 1) :
              RegularLink(i) => k1'[2 * i + 1] = ClaimAccel(i) ]_vars

\* a direct derivative call for three moving links with a NaN mass on link 0:
\* the middle link has two coupling terms, the last link one, and neither
\* is touched by link 0's parameters or by the velocities
C19_Witness ==
    /\ DerivCalled
    /\ n = 3
    /\ IsNan(params[0].mass)
    /\ omega[1] # 0
    /\ RegularLink(1) /\ RegularLink(2)
    /\ k1[3] = ClaimAccel(1) /\ k1[3] # 0
    /\ k1[5] = ClaimAccel(2) /\ k1[5] # 0
    /\ IsNan(k1[1])

\* the derivative f(y) of the packed state y for the links 0..n-1
ClaimF(y) == deriv_impl(n, Lengths, Masses, y, ZeroSlots)

\* y + (num/den) * dt * k for the slots below 2n, dt in ticks
ClaimAxpy(y, num, den, dt, k) ==
    [j \in 0 .. (2 * n - 1) |->
        FAdd(y[j], MulDiv(k[j], num * dt.num, den * dt.den * TicksPerSecond))]

\* k and f agree on the slots below 2n
SameBelow2n(k, f) == \A j \in 0 .. (2 * n - 1) : k[j] = f[j]

\* C20: one RK4 step computes k1 = f(y), k2 = f(y + dt/2*k1),
\* k3 = f(y + dt/2*k2), k4 = f(y + dt*k3), all from the pre-step state y, and
\* then adds dt/6*(k1 + 2*k2 + 2*k3 + k4) to each angle and each angular
\* velocity of links 0..n-1.
C20_ClassicalRk4 ==
    [][ (nFrames' = nFrames + 1 /\ StepCalled') =>
          \A y \in {Pack(n, theta, omega)}, dt \in {calls'[1].dt} :
              /\ SameBelow2n(k1', ClaimF(y))
              /\ SameBelow2n(k2', ClaimF(ClaimAxpy(y, 1, 2, dt, k1')))
              /\ SameBelow2n(k3', ClaimF(ClaimAxpy(y, 1, 2, dt, k2')))
              /\ SameBelow2n(k4', ClaimF(ClaimAxpy(y, 1, 1, dt, k3')))
              /\ \A sum \in {[j \in 0 .. (2 * n - 1) |->
                                 FAdd(FAdd(FAdd(k1'[j], MulSat(k2'[j], 2)),
                                           MulSat(k3'[j], 2)), k4'[j])]} :
                     \A i \in 0 .. (n - 1) :
                         /\ theta'[i] = ClaimAxpy(y, 1, 6, dt, sum)[2 * i]
                         /\ omega'[i] = ClaimAxpy(y, 1, 6, dt, sum)[2 * i + 1] ]_vars

\* a step of 5 ms of three moving regular links: the four stages differ and
\* every angle and angular velocity has moved
C20_Witness ==
    /\ StepCalled
    /\ n = 3
    /\ calls[1].dt = SubStep(SUBSTEP_TICKS, 1)
    /\ \A i \in 0 .. 2 : RegularLink(i) /\ IsFinite(omega[i])
    /\ k1[1] # k2[1] /\ k2[1] # k3[1] /\ k3[1] # k4[1]
    /\ k1[0] # k2[0]
    /\ omega[0] # 2500 /\ omega[1] # 1500 /\ omega[2] # 500

\* x + (num/den) * dt * d, dt in ticks
ClaimPlus(x, num, den, dt, d) ==
    FAdd(x, MulDiv(d, num * dt.num, den * dt.den * TicksPerSecond))

\* the value k1 + 2*k2 + 2*k3 + k4 of slot j after the step
ClaimSum(j) ==
    FAdd(FAdd(FAdd(k1'[j], MulSat(k2'[j], 2)), MulSat(k3'[j], 2)), k4'[j])

\* C21: slot 2i of the packed state, of the intermediate vectors and of
\* k1..k4 belongs to link i's angle (or its derivative) and slot 2i+1 to its
\* angular velocity (or its derivative): in every stage the derivative
\* written to slot 2i is the velocity that stage read from slot 2i+1, the
\* acceleration of a link is written to slot 2i+1, and the final update takes
\* the angle's increment from slot 2i and the velocity's from slot 2i+1.
C21_FlatLayout ==
    [][ nFrames' = nFrames + 1 =>
          \A i \in 0 .. (n - 1) :
              /\ k1'[2 * i] = omega[i]
              /\ RegularLink(i) => k1'[2 * i + 1] = ClaimAccel(i)
              /\ StepCalled' =>
                    \A dt \in {calls'[1].dt} :
                        /\ k2'[2 * i] = ClaimPlus(omega[i], 1, 2, dt, k1'[2 * i + 1])
                        /\ k3'[2 * i] = ClaimPlus(omega[i], 1, 2, dt, k2'[2 * i + 1])
                        /\ k4'[2 * i] = ClaimPlus(omega[i], 1, 1, dt, k3'[2 * i + 1])
                        /\ theta'[i] = ClaimPlus(theta[i], 1, 6, dt, ClaimSum(2 * i))
                        /\ omega'[i] = ClaimPlus(omega[i], 1, 6, dt, ClaimSum(2 * i + 1)) ]_vars

\* a step of two moving regular links: the even slots hold velocities (the
\* first stage the velocities before the step), the odd slots accelerations
C21_Witness ==
    /\ StepCalled
    /\ n = 2
    /\ RegularLink(0) /\ RegularLink(1)
    /\ k1[0] = 2500 /\ k1[2] = 1500
    /\ k2[0] # k1[0] /\ k2[2] # k1[2]
    /\ k1[1] # 0 /\ k1[3] # 0
    /\ theta[0] # DefaultTheta[0]

\* C22: for every link count 1 <= n <= MAX_LINKS a step and its four
\* derivative evaluations access only indices below n in the per-link arrays
\* and below 2n <= 2*MAX_LINKS in the packed, temporary and scratch buffers,
\* and no call panics on an index out of bounds.
C22_IndicesInBounds ==
    ValidLinkCount =>
        /\ ~panicked
        /\ \A j \in 1 .. Len(calls) :
               calls[j].op = "step" =>
                   \A a \in StepAccesses(n) :
                       /\ ~OutOfBounds(a)
                       /\ a.site \in {"lengths", "masses", "params", "theta", "omega",
                                       "thetas", "omegas", "acc"}
                              => a.idx < n \/ (a.slice /\ a.idx = n)
                       /\ a.site \in {"y_local", "tmp", "k", "y", "out"}
                              => a.idx < 2 * n \/ (a.slice /\ a.idx = 2 * n)

\* ten sub-steps with the largest link count have run without a panic; the
\* last slot of the scratch buffers is among the slots they access
C22_Witness ==
    /\ n = MAX_LINKS
    /\ ~panicked
    /\ Len(StepCalls) = 10
    /\ omega[0] # 0
    /\ Elem("k", 2 * MAX_LINKS - 1, 2 * MAX_LINKS) \in StepAccesses(n)

\* the timestamps of a history, in order
Timestamps(h) == [j \in 1 .. Len(h) |-> h[j][1]]

\* C25: if the link count has not changed since the most recent reset (or
\* since construction), the histories of all active links 0..n-1 have the
\* same length and the same sequence of timestamps.
C25_ActiveHistoriesAligned ==
    nStable =>
        \A i \in 0 .. (n - 1) :
            /\ Len(histories[i]) = Len(histories[0])
            /\ Timestamps(histories[i]) = Timestamps(histories[0])

\* the link count was changed to 7, Reset was clicked, and frames since then
\* have given each of the seven links the same samples' timestamps
C25_Witness ==
    /\ nStable
    /\ n = MAX_LINKS
    /\ nLinkChanges >= 1
    /\ nResets = 1
    /\ Len(histories[MAX_LINKS - 1]) >= 2
    /\ histories[0] # histories[1]

\* C30: in every reachable state of the app every link's length is >= 0.01
\* and its mass >= 0.001 (defaults 1.0, edits floored), so every link's
\* moment of inertia is at least 1e-7 and the test |m*l^2| < 1e-12 never
\* succeeds in an integration the GUI triggers.
C30_ParametersFloored ==
    \A i \in Links :
        /\ ~IsNan(params[i].length) /\ params[i].length >= MIN_LENGTH
        /\ ~IsNan(params[i].mass) /\ params[i].mass >= MIN_MASS
        /\ \A im \in {Inertia(params[i].mass, params[i].length)} :
               ~IsNan(im) /\ im >= MIN_MASS * MIN_LENGTH * MIN_LENGTH

\* the length of link 0 was typed as 0 or less, or as NaN, and is 0.01; a
\* later frame has integrated with it
C30_Witness ==
    /\ params[0].length = MIN_LENGTH
    /\ params[2].mass = INF_FP
    /\ nFrames = 2
    /\ Len(StepCalls) = 1
    /\ n = DEFAULT_N

\* C23 (as claimed): time spent paused is never integrated: simulation.time
\* equals the frame time accumulated while not paused since the last reset.
C23_PausedTimeNotIntegrated == wave.simulation.time = wave.unpaused

\* C29 (as claimed): after Reset the simulation time and every pendulum's
\* angle and angular velocity equal those of a freshly constructed
\* PendulumSimulation, the lengths are unchanged, and the next frame
\* performs no integration.
C29_ResetRestoresInitialState ==
    [][ /\ wave'.uiReset =>
              /\ wave'.simulation.time = SimulationDefault.time
              /\ wave'.simulation.angle = SimulationDefault.angle
              /\ wave'.simulation.angular_velocity = SimulationDefault.angular_velocity
              /\ wave'.simulation.length = wave.simulation.length
        /\ (wave.uiReset /\ wave'.frames = wave.frames + 1) => ~wave'.integrated ]_vars

\* C24 (as claimed): whenever auto_reset_history is enabled the history
\* holds at most history_capacity (4096) samples.
C24_HistoryBounded ==
    single.auto_reset_history => Len(single.history) <= HISTORY_CAPACITY

\* C26 (as claimed): every rk4_step call of a frame uses a length in
\* [0.1, 10], a mass in [0.1, 10], a drag in [0, 2] and a gravity in [0.1, 20].
C26_CallsWithinClampRanges ==
    \A i \in DOMAIN single.calls :
        /\ single.calls[i].l >= LENGTH_MIN /\ single.calls[i].l <= LENGTH_MAX
        /\ single.calls[i].m >= MASS_MIN /\ single.calls[i].m <= MASS_MAX
        /\ single.calls[i].b >= 0 /\ single.calls[i].b <= DRAG_MAX
        /\ single.calls[i].g >= GRAVITY_MIN /\ single.calls[i].g <= GRAVITY_MAX

\* the steps of the calls cs added up
RECURSIVE SumOfSteps(_)
SumOfSteps(cs) == IF cs = <<>> THEN 0 ELSE Head(cs).step + SumOfSteps(Tail(cs))

\* every step of the calls cs is above 0 and at most 0.005 s
StepsInRange(cs) == \A i \in DOMAIN cs : cs[i].step > 0 /\ cs[i].step <= MAX_SUB

\* min(frame time, 0.05) * speed in sub-ticks, frame time in ms, speed in tenths
ClaimDt(ft, speed) == IF ft * 60 * speed > 3000 * speed THEN 3000 * speed ELSE ft * 60 * speed

\* C27 (as claimed): in a frame of the running app each rk4_step call gets a
\* step with 0 < step <= 0.005 s, the steps sum to
\* min(frame time, 0.05) * simulation_speed, and the loop exits with
\* remaining == 0.
C27_StepsSumToFrameTime ==
    [][ single'.running =>
            /\ StepsInRange(single'.calls)
            /\ SumOfSteps(single'.calls) = ClaimDt(single'.frameTime, single.simulation_speed)
            /\ single'.remaining = 0 ]_vars

\* C27 (amended): in a frame of the running app each rk4_step call gets a
\* step with 0 < step <= 0.005 s, the steps sum to
\* min(t, 0.05) * simulation_speed, where t is the measured frame time if it
\* is positive and 1/60 s if it is not, and the loop exits with remaining == 0.
C27_StepsSumToDt ==
    [][ single'.running =>
            /\ StepsInRange(single'.calls)
            /\ SumOfSteps(single'.calls) =
                   (IF single'.frameTime > 0
                    THEN ClaimDt(single'.frameTime, single.simulation_speed)
                    ELSE 1000 * single.simulation_speed)
            /\ single'.remaining = 0 ]_vars

\* a frame of the running app measured a frame time of 0 and took four steps,
\* the last one shorter than 0.005 s
C27_Witness ==
    /\ single.running
    /\ single.frameTime = 0
    /\ Len(single.calls) = 4
    /\ single.calls[4].step < MAX_SUB

\* C28: a frame that leaves the app not running calls rk4_step not at all,
\* records no sample in the loop, and leaves theta and omega as they were
\* unless Reset was clicked or a preset was applied in it.
C28_PausedFrameKeepsState ==
    [][ ~single'.running =>
            /\ single'.calls = <<>>
            /\ single'.pushes = 0
            /\ \/ single'.uiReset
               \/ single'.presetApplied
               \/ single'.theta = single.theta /\ single'.omega = single.omega ]_vars

\* the app has run and moved, was paused, and a later frame of 16 ms without
\* Reset or a preset has passed
C28_Witness ==
    /\ ~single.running
    /\ single.frames = 3
    /\ single.frameTime = 16
    /\ single.theta # single.initial_theta
    /\ single.omega # 0
    /\ ~single.uiReset /\ ~single.presetApplied
    /\ Len(single.history) > 1

====
